---------------------------- MODULE Spec2Model ----------------------------
(***************************************************************************)
(* A model of the TCP engine of src/net/tcp.hh: one TCP control block      *)
(* (class tcb), the demultiplexer that owns it (class tcp), the listener   *)
(* accept queue and the packet-provider hook.                              *)
(*                                                                         *)
(* Every handler of the source (tcp::received, the three timer callbacks,  *)
(* the packet provider, the user calls and the continuations the reactor   *)
(* runs later) is one action; a handler runs to completion, so an action   *)
(* is the whole handler.  The handlers are written as operators on the     *)
(* record of the tcb, in the order of the statements of the source.  What  *)
(* a handler does to the tcp object around the tcb (poll_tcb, the erase    *)
(* from _tcbs, a reset queued by send_packet_without_tcb) is collected in  *)
(* the field fx of the record and applied by the action (Commit).          *)
(*                                                                         *)
(* Scaling.  Sequence numbers are SeqBits wide instead of 32 and the       *)
(* comparisons are the signed-difference comparisons of the source at     *)
(* that width; uint32_t counters are UintBits wide.  The byte quantities   *)
(* the source fixes at thousands of bytes (the receive window 29200, the   *)
(* 212992 bytes of send credit, the MTU) are scaled to a few bytes so      *)
(* that they fit that sequence space.  The clock is abstracted: a timer    *)
(* is armed or not and an armed timer may expire at any time; a round-trip *)
(* sample is an input of the handler that takes it.                        *)
(*                                                                         *)
(* Payload.  The byte the peer sends at sequence number s has the value s, *)
(* and the k-th byte the local user hands to send() has the value k, so    *)
(* that duplication, loss and reordering are visible in the data.          *)
(***************************************************************************)
EXTENDS Integers, Sequences, FiniteSets, TLC

VARIABLES
    tcb,         \* the tcb object: its fields, and the history fields gh
    tcbs,        \* tcp::_tcbs, as the set of tcb objects registered for the 4-tuple
    listening,   \* tcp::_listening holds a listener for the local port
    listen_q,    \* listener::_q: the connections queued for accept()
    conn,        \* who holds the connection handle of the tcb
    l2_pending,  \* poll_tcb calls waiting for get_l2_dst_address
    poll_tcbs,   \* tcp::_poll_tcbs: entries of the tcb on the ready ring
    tcb_polled,  \* the packet provider's counter tcb_polled
    packetq,     \* tcp::_packetq: packets that belong to no tcb
    queue_space, \* tcp::_queue_space
    wire,        \* the packet the provider returned last
    fault        \* "none", or the assertion / undefined step that ended the run

vars == <<tcb, tcbs, listening, listen_q, conn, l2_pending, poll_tcbs,
          tcb_polled, packetq, queue_space, wire, fault>>

-----------------------------------------------------------------------------
(* Bounds of the model *)

SeqBits == 5           \* width of a sequence number (32 in the source)
UintBits == 12         \* width of a uint32_t counter (32 in the source)
LocalMss == 2          \* local_mss(): mtu - tcp_hdr_len_min - ip_hdr_len_min
RcvWindow == 4         \* the receive window (29200 << window_scale in the source)
UserQueueSpace == 2    \* the credit of _snd.user_queue_space (212992 in the source)
StrayQueueSpace == 2   \* the credit of tcp::_queue_space, in reset packets
StrayPeriod == 2       \* the provider serves a stray packet when tcb_polled % this = 0
ListenQueueLen == 1    \* queue_length of the listener
MaxSendBytes == 3      \* bytes the user hands to send() in one behaviour
MaxPeerBytes == 3      \* bytes of the peer's stream
MaxDupAcks == 3        \* duplicate ACKs the peer sends in a row
MaxTimeouts == 2       \* doublings of a timer's back-off while the peer is alive

(* Program constants *)

MaxNrRetransmit == 5
RtoMin == 1000
RtoMax == 60000
RtoClkGranularity == 1

SeqMod == 2 ^ SeqBits
UintMod == 2 ^ UintBits

Min(a, b) == IF a <= b THEN a ELSE b
Max(a, b) == IF a >= b THEN a ELSE b

(* uint32_t arithmetic: the value modulo the width *)
U32(v) == v % UintMod

-----------------------------------------------------------------------------
(* tcp_seq: sequence numbers modulo SeqMod, compared by signed difference *)

SeqAdd(s, n) == (s + n) % SeqMod
SeqDiff(s, q) ==
    IF (s - q) % SeqMod >= SeqMod \div 2
    THEN ((s - q) % SeqMod) - SeqMod
    ELSE (s - q) % SeqMod
SeqLT(s, q) == SeqDiff(s, q) < 0
SeqGT(s, q) == SeqLT(q, s)
SeqLE(s, q) == ~ SeqGT(s, q)
SeqGE(s, q) == ~ SeqLT(s, q)

-----------------------------------------------------------------------------
(* tcp_state and the bitmask test in_state *)

CLOSED == "CLOSED"
LISTEN == "LISTEN"
SYN_SENT == "SYN_SENT"
SYN_RECEIVED == "SYN_RECEIVED"
ESTABLISHED == "ESTABLISHED"
FIN_WAIT_1 == "FIN_WAIT_1"
FIN_WAIT_2 == "FIN_WAIT_2"
CLOSE_WAIT == "CLOSE_WAIT"
CLOSING == "CLOSING"
LAST_ACK == "LAST_ACK"
TIME_WAIT == "TIME_WAIT"

TcpStates == {CLOSED, LISTEN, SYN_SENT, SYN_RECEIVED, ESTABLISHED, FIN_WAIT_1,
              FIN_WAIT_2, CLOSE_WAIT, CLOSING, LAST_ACK, TIME_WAIT}

in_state(t, mask) == t.state \in mask

(* The changes of _state taken for regular: the opens, the handshake, the  *)
(* two closes and the end of LAST_ACK.  do_reset enters CLOSED from any    *)
(* state, and so does do_closed when a reset calls it.                     *)
StateEdges ==
    {<<CLOSED, SYN_SENT>>, <<CLOSED, SYN_RECEIVED>>,
     <<SYN_SENT, ESTABLISHED>>, <<SYN_SENT, SYN_RECEIVED>>,
     <<SYN_RECEIVED, ESTABLISHED>>,
     <<ESTABLISHED, FIN_WAIT_1>>, <<ESTABLISHED, CLOSE_WAIT>>,
     <<FIN_WAIT_1, FIN_WAIT_2>>, <<FIN_WAIT_1, CLOSING>>,
     <<FIN_WAIT_2, TIME_WAIT>>, <<CLOSING, TIME_WAIT>>,
     <<CLOSE_WAIT, LAST_ACK>>, <<LAST_ACK, CLOSED>>}
OffEdge(from, to) == from # to /\ <<from, to>> \notin StateEdges

-----------------------------------------------------------------------------
(* Packets *)

(* The bytes of the peer's segment <seq, len>: the byte at s has the value s *)
PeerPayload(seq, len) == [i \in 1 .. len |-> SeqAdd(seq, i - 1)]

(* An outbound segment as output_one builds it.  id is the history tag of  *)
(* the unacked_segment it was stored as (0: no payload); rtx marks a copy  *)
(* queued by retransmit or fast_retransmit.                                *)
Pkt(seq, ack, syn, ackf, fin, rst, win, data, id) ==
    [seq |-> seq, ack |-> ack, f_syn |-> syn, f_ack |-> ackf, f_fin |-> fin,
     f_rst |-> rst, window |-> win, data |-> data, id |-> id, rtx |-> FALSE]


-----------------------------------------------------------------------------
(* The tcb object *)

NoFx == [polls |-> 0, erase |-> FALSE, rsts |-> <<>>, fault |-> "none"]

(* History of the run, read by the properties only: reads is the           *)
(* concatenation of what read() returned, sent the number of bytes the     *)
(* user handed to send(), next_id the tag of the next unacked_segment,     *)
(* first_tx the seq and payload of each tagged segment as first sent,      *)
(* fin_rcvd whether the peer's FIN was accepted, cleaned whether cleanup() *)
(* ran, fut_data and fut_connect the outcome of the futures                *)
(* handed to the user, connect_sets how often _connect_done was resolved,  *)
(* arrived the sequence numbers of the payload bytes that arrived while    *)
(* ESTABLISHED, gap_filled whether merge_out_of_order merged a fragment,   *)
(* fin_acked whether an ACK of the local FIN was taken, rst_acted whether  *)
(* a handler acted on a reset, fin_tx the number of segments with FIN     *)
(* that get_packet handed to the provider (counted up to                   *)
(* MaxNrRetransmit + 2), stray the last segment tcp::received found no tcb *)
(* for (n flips at each one), rst_answered whether a reset was produced    *)
(* for a segment that had RST, stray_pulled whether the provider's last    *)
(* call returned a stray packet while a tcb was on the ready ring,         *)
(* options_init whether init_from_options ran, off_edge whether _state was *)
(* assigned along a change that is not in StateEdges.                      *)
NoHistory ==
    [reads |-> <<>>, sent |-> 0, next_id |-> 1, first_tx |-> <<>>,
     fin_rcvd |-> FALSE, cleaned |-> FALSE, fin_sent |-> FALSE,
     arrived |-> {}, gap_filled |-> FALSE, fin_acked |-> FALSE, rst_acted |-> FALSE,
     fut_data |-> "none", fut_connect |-> "none", close_done |-> FALSE,
     send_blocked |-> 0, send_failed |-> 0, connect_sets |-> 0, fin_tx |-> 0,
     stray |-> [n |-> 0, seg |-> <<>>], rst_answered |-> FALSE,
     stray_pulled |-> FALSE, options_init |-> FALSE,
     off_edge |-> FALSE]

(* The object as tcb::tcb leaves it: the members without an initializer    *)
(* hold an indeterminate value g.                                          *)
NewTcb(g) ==
    [state |-> CLOSED,
     connect_done |-> "pending",
     snd |-> [unacknowledged |-> g, next |-> g, window |-> g, mss |-> g,
              wl1 |-> g, wl2 |-> g, initial |-> g,
              data |-> <<>>, unsent |-> <<>>, unsent_len |-> 0, queued_len |-> 0,
              closed |-> FALSE, all_data_acked_promise |-> "none",
              user_queue_space |-> [count |-> UserQueueSpace, wait_list |-> <<>>],
              rttvar |-> g, srtt |-> g, first_rto_sample |-> TRUE,
              cwnd |-> g, ssthresh |-> g, dupacks |-> 0,
              syn_retransmit |-> 0, fin_retransmit |-> 0,
              limited_transfer |-> 0, partial_ack |-> 0, recover |-> g,
              window_probe |-> FALSE],
     rcv |-> [next |-> g, window |-> g, mss |-> g, initial |-> g,
              data |-> <<>>, out_of_order |-> {}, data_received_promise |-> "none"],
     delayed_ack |-> FALSE,      \* _delayed_ack.armed()
     retransmit |-> FALSE,       \* _retransmit.armed()
     persist |-> FALSE,          \* _persist.armed()
     rto |-> RtoMin,
     persist_time_out |-> RtoMin,
     nr_full_seg_received |-> 0,
     packetq |-> <<>>,
     poll_active |-> FALSE,
     send_tasks |-> <<>>,        \* continuations of send() the semaphore has woken
     close_task |-> "none",      \* the continuation of close(): none, waiting, ready
     fx |-> NoFx,
     gh |-> NoHistory]

(* A variant of output that does not look at _poll_active *)
output_unconditionally(t) == [t EXCEPT !.poll_active = TRUE, !.fx.polls = @ + 1]

(* tcb::output *)
output(t) ==
    IF ~ t.poll_active
    THEN [t EXCEPT !.poll_active = TRUE, !.fx.polls = @ + 1]
    ELSE t

(* tcb::start_retransmit_timer, stop_retransmit_timer and the persist pair *)
start_retransmit_timer(t) == [t EXCEPT !.retransmit = TRUE]
stop_retransmit_timer(t) == [t EXCEPT !.retransmit = FALSE]
start_persist_timer(t) == [t EXCEPT !.persist = TRUE]
stop_persist_timer(t) == [t EXCEPT !.persist = FALSE]

(* tcb::clear_delayed_ack *)
clear_delayed_ack(t) == [t EXCEPT !.delayed_ack = FALSE]

(* tcb::queue_packet *)
queue_packet(t, p) == [t EXCEPT !.packetq = Append(@, p)]

(* tcb::flight_size *)
RECURSIVE SumRemaining(_)
SumRemaining(segs) ==
    IF segs = <<>> THEN 0
    ELSE U32(Head(segs).data_remaining + SumRemaining(Tail(segs)))
flight_size(t) == SumRemaining(t.snd.data)

(* tcb::signal_data_received.  A promise that do_reset failed stays in the *)
(* optional, and setting it again is a fault of the promise.               *)
signal_data_received(t) ==
    CASE t.rcv.data_received_promise = "pending" ->
            [t EXCEPT !.rcv.data_received_promise = "none", !.gh.fut_data = "ready"]
      [] t.rcv.data_received_promise = "failed" ->
            [t EXCEPT !.gh.fut_data = "set_twice"]
      [] OTHER -> t

(* tcb::signal_all_data_acked: the waiter is the continuation of close() *)
signal_all_data_acked(t) ==
    IF t.snd.all_data_acked_promise # "none" /\ t.snd.unsent_len = 0 /\ t.snd.queued_len = 0
    THEN [t EXCEPT !.snd.all_data_acked_promise = "none",
                   !.close_task = IF t.snd.all_data_acked_promise = "pending"
                                  THEN "ready" ELSE @]
    ELSE t

(* tcb::remove_from_tcbs: erases whatever _tcbs holds for the 4-tuple *)
remove_from_tcbs(t) == [t EXCEPT !.fx.erase = TRUE]

(* tcb::cleanup *)
cleanup(t) ==
    remove_from_tcbs(
      clear_delayed_ack(
        stop_retransmit_timer(
          [t EXCEPT !.snd.unsent = <<>>, !.snd.data = <<>>,
                    !.rcv.out_of_order = {}, !.rcv.data = <<>>,
                    !.gh.cleaned = TRUE])))

(* semaphore::broken on _snd.user_queue_space: every waiter fails *)
semaphore_broken(t) ==
    [t EXCEPT !.snd.user_queue_space.wait_list = <<>>,
              !.gh.send_failed = @ + Len(t.snd.user_queue_space.wait_list),
              !.gh.send_blocked = @ - Len(t.snd.user_queue_space.wait_list)]

(* tcb::do_reset, its last two statements: the promises that are set fail *)
fail_promises(t) ==
    [t EXCEPT !.rcv.data_received_promise = IF @ = "pending" THEN "failed" ELSE @,
              !.gh.fut_data = IF t.rcv.data_received_promise = "pending"
                              THEN "reset" ELSE @,
              !.snd.all_data_acked_promise = IF @ = "pending" THEN "failed" ELSE @,
              !.close_task = IF t.snd.all_data_acked_promise = "pending"
                             THEN "failed" ELSE @]

(* tcb::do_reset *)
do_reset(t) == fail_promises(cleanup(semaphore_broken([t EXCEPT !.state = CLOSED])))

(* tcb::do_time_wait, do_closed *)
do_time_wait(t) ==
    cleanup([t EXCEPT !.state = TIME_WAIT,
                      !.gh.off_edge = @ \/ OffEdge(t.state, TIME_WAIT)])
do_closed(t) ==
    cleanup([t EXCEPT !.state = CLOSED,
                      !.gh.off_edge = @ \/ (~ t.gh.rst_acted /\ OffEdge(t.state, CLOSED))])

(* tcb::do_setup_isn, with the value get_isn returned *)
do_setup_isn(t, isn) ==
    [t EXCEPT !.snd.initial = isn, !.snd.unacknowledged = isn,
              !.snd.next = SeqAdd(isn, 1), !.snd.recover = isn]

(* A variant of do_local_fin_acked that steps SND.UNA back *)
do_local_fin_acked_una_back(t) ==
    [t EXCEPT !.snd.unacknowledged = SeqAdd(@, -1), !.snd.next = SeqAdd(@, 1)]

(* tcb::do_local_fin_acked *)
do_local_fin_acked(t) ==
    [t EXCEPT !.snd.unacknowledged = SeqAdd(@, 1), !.snd.next = SeqAdd(@, 1)]

(* tcb::syn_needs_on, fin_needs_on, ack_needs_on, foreign_will_not_send *)
syn_needs_on(t) == in_state(t, {SYN_SENT, SYN_RECEIVED})
fin_needs_on(t) ==
    /\ in_state(t, {FIN_WAIT_1, CLOSING, LAST_ACK})
    /\ t.snd.closed
    /\ t.snd.unsent_len = 0
    /\ t.snd.queued_len = 0
ack_needs_on(t) == ~ in_state(t, {CLOSED, LISTEN, SYN_SENT})
foreign_will_not_send(t) == in_state(t, {CLOSING, TIME_WAIT, CLOSE_WAIT, LAST_ACK, CLOSED})

(* tcb::exit_fast_recovery *)
exit_fast_recovery(t) ==
    [t EXCEPT !.snd.dupacks = 0, !.snd.limited_transfer = 0, !.snd.partial_ack = 0]

(* update_rto_unclamped is a variant of update_rto that leaves the RTO as  *)
(* RFC 6298 computes it.                                                   *)
(* tcb::update_rto, with R the sample now - tx_time in milliseconds: the   *)
(* new RTTVAR and SRTT, then the RTO clamped to [RtoMin, RtoMax]           *)
rto_rttvar(t, R) ==
    IF t.snd.first_rto_sample THEN R \div 2
    ELSE (t.snd.rttvar * 3) \div 4
         + (IF t.snd.srtt > R THEN t.snd.srtt - R ELSE R - t.snd.srtt) \div 4
rto_srtt(t, R) ==
    IF t.snd.first_rto_sample THEN R ELSE (t.snd.srtt * 7) \div 8 + R \div 8
update_rto_unclamped(t, R) ==
    [t EXCEPT !.snd.first_rto_sample = FALSE,
              !.snd.rttvar = rto_rttvar(t, R),
              !.snd.srtt = rto_srtt(t, R),
              !.rto = rto_srtt(t, R) + Max(RtoClkGranularity, 4 * rto_rttvar(t, R))]
update_rto(t, R) ==
    [t EXCEPT !.snd.first_rto_sample = FALSE,
              !.snd.rttvar = rto_rttvar(t, R),
              !.snd.srtt = rto_srtt(t, R),
              !.rto = Min(Max(rto_srtt(t, R) + Max(RtoClkGranularity, 4 * rto_rttvar(t, R)),
                              RtoMin), RtoMax)]

(* tcb::update_cwnd *)
update_cwnd(t, acked_bytes) ==
    IF t.snd.cwnd < t.snd.ssthresh
    THEN [t EXCEPT !.snd.cwnd = U32(@ + Min(acked_bytes, t.snd.mss))]
    ELSE IF t.snd.cwnd = 0
    THEN [t EXCEPT !.fx.fault = "division by zero in update_cwnd"]
    ELSE [t EXCEPT !.snd.cwnd = U32(@ + Max(1, U32(t.snd.mss * t.snd.mss) \div t.snd.cwnd))]

(* tcb::do_syn_sent, do_syn_received (syn_tx_time is part of the sample R) *)
do_syn_sent(t) ==
    output([t EXCEPT !.state = SYN_SENT, !.gh.off_edge = @ \/ OffEdge(t.state, SYN_SENT)])
do_syn_received(t) ==
    output([t EXCEPT !.state = SYN_RECEIVED,
                     !.gh.off_edge = @ \/ OffEdge(t.state, SYN_RECEIVED)])

(* _connect_done.set_value / set_exception *)
resolve_connect(t, how) ==
    [t EXCEPT !.connect_done = how,
              !.gh.connect_sets = @ + 1,
              !.gh.fut_connect = IF @ = "pending" THEN how ELSE @]

(* tcb::do_established *)
do_established(t, R) ==
    resolve_connect(update_rto([t EXCEPT !.state = ESTABLISHED,
                                         !.gh.off_edge = @ \/ OffEdge(t.state, ESTABLISHED)],
                               R), "value")

-----------------------------------------------------------------------------
(* Output *)

(* tcb::can_send, what the advertised and the congestion window allow *)
can_send_windows(t) ==
    Min(t.snd.cwnd,
        Min(U32(t.snd.window - SeqDiff(t.snd.next, t.snd.unacknowledged)),
            t.snd.unsent_len))

(* tcb::can_send, the limited transmit of the first two duplicate ACKs *)
can_send_limited(t) ==
    IF flight_size(t) <= U32(t.snd.cwnd + 2 * t.snd.mss)
    THEN Min(can_send_windows(t), U32(t.snd.cwnd + 2 * t.snd.mss) - flight_size(t))
    ELSE 0

(* tcb::can_send: the budget x, and the tcb with limited_transfer updated *)
can_send(t) ==
    IF t.snd.window_probe THEN [x |-> 1, t |-> t]
    ELSE IF t.snd.dupacks = 1 \/ t.snd.dupacks = 2
    THEN [x |-> can_send_limited(t),
          t |-> [t EXCEPT !.snd.limited_transfer = U32(@ + can_send_limited(t))]]
    ELSE IF t.snd.dupacks >= 3
    THEN [x |-> Min(t.snd.mss, can_send_windows(t)), t |-> t]
    ELSE [x |-> can_send_windows(t), t |-> t]

(* if (can_send() > 0) output(): on the result cs of can_send *)
output_if_can_send(cs) == IF cs.x > 0 THEN output(cs.t) ELSE cs.t

SubSeqFrom(q, n) == SubSeq(q, n, Len(q))

(* get_transmit_packet, the hard case: append whole packets while they fit *)
RECURSIVE MergeWhole(_, _, _)
MergeWhole(unsent, budget, p) ==
    IF unsent # <<>> /\ Len(Head(unsent)) <= budget
    THEN MergeWhole(Tail(unsent), budget - Len(Head(unsent)), p \o Head(unsent))
    ELSE [p |-> p, unsent |-> unsent, budget |-> budget]

(* get_transmit_packet, the hard case after the loop: split the last *)
merged_payload(m) ==
    IF m.unsent # <<>> /\ m.budget > 0
    THEN m.p \o SubSeq(Head(m.unsent), 1, m.budget)
    ELSE m.p
merged_rest(m) ==
    IF m.unsent # <<>> /\ m.budget > 0
    THEN <<SubSeqFrom(Head(m.unsent), m.budget + 1)>> \o Tail(m.unsent)
    ELSE m.unsent

(* get_transmit_packet once can_send is min(can_send(), len) *)
take_unsent(t, budget) ==
    IF Len(t.snd.unsent) = 1 /\ Len(Head(t.snd.unsent)) <= budget
    THEN \* easy case: one small packet
         [p |-> Head(t.snd.unsent),
          t |-> [t EXCEPT !.snd.unsent = Tail(@),
                          !.snd.unsent_len = U32(@ - Len(Head(t.snd.unsent)))]]
    ELSE IF Len(Head(t.snd.unsent)) > budget
    THEN \* moderate case: split one packet
         [p |-> SubSeq(Head(t.snd.unsent), 1, budget),
          t |-> [t EXCEPT !.snd.unsent =
                              <<SubSeqFrom(Head(t.snd.unsent), budget + 1)>> \o Tail(@),
                          !.snd.unsent_len = U32(@ - budget)]]
    ELSE \* hard case: merge some packets, possibly split the last
         [p |-> merged_payload(MergeWhole(Tail(t.snd.unsent),
                                          budget - Len(Head(t.snd.unsent)),
                                          Head(t.snd.unsent))),
          t |-> [t EXCEPT
                   !.snd.unsent = merged_rest(MergeWhole(Tail(t.snd.unsent),
                                                         budget - Len(Head(t.snd.unsent)),
                                                         Head(t.snd.unsent))),
                   !.snd.unsent_len =
                       U32(@ - Len(merged_payload(MergeWhole(Tail(t.snd.unsent),
                                                   budget - Len(Head(t.snd.unsent)),
                                                   Head(t.snd.unsent)))))]]

(* get_transmit_packet from the call of can_send on (tx_tso off) *)
take_within(cs) == take_unsent(cs.t, Min(cs.x, Min(LocalMss, cs.t.snd.mss)))

(* tcb::get_transmit_packet: the payload p, and the tcb *)
get_transmit_packet(t) ==
    IF t.snd.unsent = <<>> THEN [p |-> <<>>, t |-> t]
    ELSE take_within(can_send(t))

(* output_one, the header of the segment that carries payload *)
segment_header(t, payload) ==
    Pkt(IF syn_needs_on(t) THEN t.snd.initial ELSE t.snd.next,
        t.rcv.next, syn_needs_on(t), ack_needs_on(t), fin_needs_on(t), FALSE,
        t.rcv.window, payload,
        IF Len(payload) > 0 THEN t.gh.next_id ELSE 0)

(* output_one once the segment p is built: SND.NXT moves over the payload, *)
(* a segment with payload is kept for retransmission, the timer is armed   *)
(* and p is queued.                                                        *)
store_segment(t, p) ==
    queue_packet(
      [t EXCEPT !.delayed_ack = IF p.f_ack THEN FALSE ELSE @,
                !.snd.next = SeqAdd(@, Len(p.data)),
                !.snd.data = IF Len(p.data) > 0
                             THEN Append(@, [p |-> p, data_len |-> Len(p.data),
                                             data_remaining |-> Len(p.data),
                                             nr_transmits |-> 0])
                             ELSE @,
                !.retransmit = IF Len(p.data) > 0 \/ p.f_syn \/ p.f_fin THEN TRUE ELSE @,
                !.gh.next_id = IF Len(p.data) > 0 THEN @ + 1 ELSE @,
                !.gh.first_tx = IF Len(p.data) > 0
                                THEN Append(@, [seq |-> p.seq, data |-> p.data])
                                ELSE @,
                !.gh.fin_sent = IF p.f_fin THEN TRUE ELSE @],
      p)

(* output_one from the header on, g being what get_transmit_packet returned *)
output_segment(g) == store_segment(g.t, segment_header(g.t, g.p))

(* tcb::output_one *)
output_one(t) ==
    IF in_state(t, {CLOSED}) THEN t
    ELSE output_segment(get_transmit_packet(t))

(* get_packet, after the pop: whether the tcb goes back on the ready ring *)
keep_polling(t) ==
    IF t.packetq # <<>> THEN output(t)
    ELSE IF t.snd.dupacks < 3 THEN output_if_can_send(can_send(t))
    ELSE t

(* get_packet, from the test of the state on *)
take_packet(t) ==
    IF in_state(t, {CLOSED}) THEN [p |-> <<>>, t |-> t]
    ELSE [p |-> <<Head(t.packetq)>>,
          t |-> keep_polling([t EXCEPT !.packetq = Tail(@),
                                       !.gh.fin_tx = IF Head(t.packetq).f_fin
                                                     THEN Min(@ + 1, MaxNrRetransmit + 2)
                                                     ELSE @])]

(* tcb::get_packet: the packet handed to the provider (<<>>: none) *)
get_packet(t) ==
    IF t.packetq = <<>>
    THEN take_packet(output_one([t EXCEPT !.poll_active = FALSE]))
    ELSE take_packet([t EXCEPT !.poll_active = FALSE])

-----------------------------------------------------------------------------
(* Timers *)

(* the lambda output_update_rto of tcb::retransmit *)
output_update_rto(t) ==
    start_retransmit_timer([output(t) EXCEPT !.rto = Min(@ * 2, RtoMax)])

(* A variant of retransmit_front that resends only the bytes of the front  *)
(* segment that are not acknowledged yet                                   *)
retransmit_front_trimmed(t) ==
    IF Head(t.snd.data).nr_transmits < MaxNrRetransmit
    THEN output_update_rto(
           queue_packet(
             [t EXCEPT !.snd.data[1].nr_transmits = @ + 1],
             [Head(t.snd.data).p EXCEPT
                !.rtx = TRUE,
                !.seq = SeqAdd(@, Head(t.snd.data).data_len
                                  - Head(t.snd.data).data_remaining),
                !.data = SubSeqFrom(@, Head(t.snd.data).data_len
                                       - Head(t.snd.data).data_remaining + 1)]))
    ELSE cleanup(t)

(* A variant of retransmit_front that moves SND.NXT over the bytes it      *)
(* resends                                                                 *)
retransmit_front_advancing(t) ==
    IF Head(t.snd.data).nr_transmits < MaxNrRetransmit
    THEN output_update_rto(
           queue_packet([t EXCEPT !.snd.data[1].nr_transmits = @ + 1,
                                  !.snd.next = SeqAdd(@, Head(t.snd.data).data_len)],
                        [Head(t.snd.data).p EXCEPT !.rtx = TRUE]))
    ELSE cleanup(t)

(* tcb::retransmit, the oldest unacknowledged segment: queue it again, or  *)
(* give up                                                                 *)
retransmit_front(t) ==
    IF Head(t.snd.data).nr_transmits < MaxNrRetransmit
    THEN output_update_rto(
           queue_packet([t EXCEPT !.snd.data[1].nr_transmits = @ + 1],
                        [Head(t.snd.data).p EXCEPT !.rtx = TRUE]))
    ELSE cleanup(t)

(* A variant of retransmit_data that leaves ssthresh as it is *)
retransmit_data_keeping_ssthresh(t) ==
    IF t.snd.data = <<>> THEN t
    ELSE retransmit_front(exit_fast_recovery(
           [t EXCEPT !.snd.recover = SeqAdd(t.snd.next, -1),
                     !.snd.cwnd = t.snd.mss]))

(* tcb::retransmit, from "Retransmit Data" on *)
retransmit_data(t) ==
    IF t.snd.data = <<>> THEN t
    ELSE retransmit_front(exit_fast_recovery(
           [t EXCEPT !.snd.ssthresh = IF Head(t.snd.data).nr_transmits = 0
                                      THEN Max(flight_size(t) \div 2, U32(2 * t.snd.mss))
                                      ELSE @,
                     !.snd.recover = SeqAdd(t.snd.next, -1),
                     !.snd.cwnd = t.snd.mss]))

(* tcb::retransmit, from "Retransmit FIN" on *)
retransmit_fin(t) ==
    IF fin_needs_on(t)
    THEN IF t.snd.fin_retransmit < MaxNrRetransmit
         THEN retransmit_data(output_update_rto([t EXCEPT !.snd.fin_retransmit = @ + 1]))
         ELSE cleanup([t EXCEPT !.snd.fin_retransmit = @ + 1])
    ELSE retransmit_data(t)

(* tcb::retransmit *)
retransmit(t) ==
    IF syn_needs_on(t)
    THEN IF t.snd.syn_retransmit < MaxNrRetransmit
         THEN retransmit_fin(output_update_rto([t EXCEPT !.snd.syn_retransmit = @ + 1]))
         ELSE cleanup(resolve_connect([t EXCEPT !.snd.syn_retransmit = @ + 1],
                                      "tcp_connect_error"))
    ELSE retransmit_fin(t)

(* tcb::persist *)
persist(t) ==
    start_persist_timer(
      [output([output_one([t EXCEPT !.snd.window_probe = TRUE])
                 EXCEPT !.snd.window_probe = FALSE])
         EXCEPT !.persist_time_out = Min(@ * 2, RtoMax)])

(* the callback of _delayed_ack *)
delayed_ack_fired(t) == output([t EXCEPT !.nr_full_seg_received = 0])

-----------------------------------------------------------------------------
(* The user's calls *)

(* semaphore::signal on _snd.user_queue_space: the waiters the credit now  *)
(* covers are woken in order; their continuations run as tasks.            *)
RECURSIVE WakeWaiters(_)
WakeWaiters(t) ==
    IF /\ t.snd.user_queue_space.wait_list # <<>>
       /\ Len(Head(t.snd.user_queue_space.wait_list)) <= t.snd.user_queue_space.count
    THEN WakeWaiters([t EXCEPT
             !.snd.user_queue_space.count =
                 @ - Len(Head(t.snd.user_queue_space.wait_list)),
             !.snd.user_queue_space.wait_list = Tail(@),
             !.send_tasks = Append(@, Head(t.snd.user_queue_space.wait_list)),
             !.gh.send_blocked = @ - 1])
    ELSE t
semaphore_signal(t, n) == WakeWaiters([t EXCEPT !.snd.user_queue_space.count = @ + n])

(* the continuation of tcb::send, run once the credit for p is taken *)
send_continuation(t, p) ==
    IF t.snd.closed THEN [t EXCEPT !.fx.fault = "assert(!_snd.closed) in send"]
    ELSE output_if_can_send(can_send(
           [t EXCEPT !.snd.unsent_len = U32(@ + Len(p)),
                     !.snd.queued_len = U32(@ - Len(p)),
                     !.snd.unsent = Append(@, p)]))

(* semaphore::wait on _snd.user_queue_space for the packet p of tcb::send *)
semaphore_wait(t, p) ==
    IF t.snd.user_queue_space.count >= Len(p) /\ t.snd.user_queue_space.wait_list = <<>>
    THEN send_continuation([t EXCEPT !.snd.user_queue_space.count = @ - Len(p)], p)
    ELSE [t EXCEPT !.snd.user_queue_space.wait_list = Append(@, p),
                   !.gh.send_blocked = @ + 1]

(* The next len bytes of the user's stream: the k-th byte has the value k *)
UserPayload(t, len) == [i \in 1 .. len |-> t.gh.sent + i - 1]

(* tcb::send of the next len bytes of the user's stream *)
tcb_send(t, len) ==
    IF t.snd.closed THEN [t EXCEPT !.fx.fault = "assert(!_snd.closed) in send"]
    ELSE IF in_state(t, {CLOSED})
    THEN [t EXCEPT !.gh.sent = @ + len, !.gh.send_failed = @ + 1]
    ELSE semaphore_wait([t EXCEPT !.gh.sent = @ + len,
                                  !.snd.queued_len = U32(@ + len)],
                        UserPayload(t, len))

(* the continuation of tcb::close, run once all data is acknowledged *)
close_continuation(t) ==
    output(output_one(
      [t EXCEPT !.snd.closed = TRUE, !.close_task = "none",
                !.gh.close_done = TRUE,
                !.state = IF @ = CLOSE_WAIT THEN LAST_ACK
                          ELSE IF @ = ESTABLISHED THEN FIN_WAIT_1
                          ELSE @,
                !.gh.off_edge =
                    @ \/ OffEdge(t.state, IF t.state = CLOSE_WAIT THEN LAST_ACK
                                          ELSE IF t.state = ESTABLISHED THEN FIN_WAIT_1
                                          ELSE t.state)]))

(* tcb::close, with tcb::wait_for_all_data_acked *)
tcb_close(t) ==
    IF in_state(t, {CLOSED}) \/ t.snd.closed THEN t
    ELSE IF t.snd.data = <<>> /\ t.snd.unsent_len = 0 /\ t.snd.queued_len = 0
         THEN close_continuation(t)
         ELSE [t EXCEPT !.snd.all_data_acked_promise = "pending",
                        !.close_task = "waiting"]

(* tcb::read: the bytes returned are appended to the history *)
RECURSIVE Flatten(_)
Flatten(q) == IF q = <<>> THEN <<>> ELSE Head(q) \o Flatten(Tail(q))
tcb_read(t) ==
    [t EXCEPT !.rcv.data = <<>>, !.gh.reads = @ \o Flatten(t.rcv.data)]

(* tcb::wait_for_data *)
wait_for_data(t) ==
    IF t.rcv.data # <<>> \/ foreign_will_not_send(t)
    THEN [t EXCEPT !.gh.fut_data = "ready"]
    ELSE [t EXCEPT !.rcv.data_received_promise = "pending", !.gh.fut_data = "pending"]

-----------------------------------------------------------------------------
(* Input *)

(* A variant of respond_with_reset that acknowledges every segment, not    *)
(* only one with SYN                                                       *)
respond_with_reset_acking(t, seg) ==
    IF seg.f_rst THEN t
    ELSE [t EXCEPT !.fx.rsts = Append(@,
             Pkt(IF seg.f_ack THEN seg.ack ELSE 0, SeqAdd(seg.seq, 1),
                 FALSE, TRUE, FALSE, TRUE, 0, <<>>, 0))]

(* A variant of respond_with_reset without the test of the segment's RST *)
respond_with_reset_always(t, seg) ==
    [t EXCEPT !.fx.rsts = Append(@,
        Pkt(IF seg.f_ack THEN seg.ack ELSE 0,
            IF seg.f_syn THEN SeqAdd(seg.seq, 1) ELSE 0,
            FALSE, seg.f_syn, FALSE, TRUE, 0, <<>>, 0))]

(* tcp::respond_with_reset, through tcb::respond_with_reset: the reset for *)
(* the segment seg is handed to send_packet_without_tcb.                   *)
respond_with_reset(t, seg) ==
    IF seg.f_rst THEN t
    ELSE [t EXCEPT !.fx.rsts = Append(@,
             Pkt(IF seg.f_ack THEN seg.ack ELSE 0,
                 IF seg.f_syn THEN SeqAdd(seg.seq, 1) ELSE 0,
                 FALSE, seg.f_syn, FALSE, TRUE, 0, <<>>, 0))]

(* tcb::segment_acceptable *)
segment_acceptable(t, seg_seq, seg_len) ==
    IF seg_len = 0 /\ t.rcv.window = 0 THEN seg_seq = t.rcv.next
    ELSE IF seg_len = 0 /\ t.rcv.window > 0
    THEN /\ SeqLE(t.rcv.next, seg_seq)
         /\ SeqLT(seg_seq, SeqAdd(t.rcv.next, t.rcv.window))
    ELSE IF seg_len > 0 /\ t.rcv.window > 0
    THEN \/ /\ SeqLE(t.rcv.next, seg_seq)
            /\ SeqLT(seg_seq, SeqAdd(t.rcv.next, t.rcv.window))
         \/ /\ SeqLE(t.rcv.next, SeqAdd(seg_seq, seg_len - 1))
            /\ SeqLT(SeqAdd(seg_seq, seg_len - 1), SeqAdd(t.rcv.next, t.rcv.window))
    ELSE FALSE

(* init_from_options, the initial congestion window for the peer's MSS *)
initial_cwnd(mss) ==
    IF 2190 < mss THEN 2 * mss
    ELSE IF 1095 < mss /\ mss <= 2190 THEN 3 * mss
    ELSE 4 * mss

(* tcb::init_from_options.  The peer's SYN carries an MSS option and no    *)
(* window-scale option, so both scale factors are 0.                       *)
init_from_options(t, seg) ==
    [t EXCEPT !.snd.mss = seg.mss, !.rcv.mss = LocalMss,
              !.rcv.window = RcvWindow, !.snd.window = seg.window,
              !.snd.wl1 = seg.seq, !.snd.wl2 = seg.ack,
              !.snd.cwnd = U32(initial_cwnd(seg.mss)), !.snd.ssthresh = seg.window,
              !.gh.options_init = TRUE]

(* tcb::input_handle_listen_state *)
input_handle_listen_state(t, seg, isn) ==
    do_syn_received(init_from_options(
      do_setup_isn([t EXCEPT !.rcv.next = SeqAdd(seg.seq, 1), !.rcv.initial = seg.seq],
                   isn),
      seg))

(* input_handle_syn_sent_state, "fourth check the SYN bit", RCV.NXT, IRS   *)
(* and SND.UNA being set                                                   *)
syn_sent_syn(t, seg, R) ==
    IF SeqGT(t.snd.unacknowledged, t.snd.initial)
    THEN output(do_established(init_from_options(t, seg), R))
    ELSE do_syn_received(t)

(* tcb::input_handle_syn_sent_state *)
input_handle_syn_sent_state(t, seg, R) ==
    IF seg.f_ack /\ (SeqLE(seg.ack, t.snd.initial) \/ SeqGT(seg.ack, t.snd.next))
    THEN respond_with_reset(t, seg)
    ELSE IF seg.f_rst
    THEN (IF /\ seg.f_ack
             /\ SeqLE(t.snd.unacknowledged, seg.ack)
             /\ SeqLE(seg.ack, t.snd.next)
          THEN do_reset([t EXCEPT !.gh.rst_acted = TRUE])
          ELSE t)
    ELSE IF seg.f_syn
    THEN syn_sent_syn([t EXCEPT !.rcv.next = SeqAdd(seg.seq, 1),
                                !.rcv.initial = seg.seq,
                                !.snd.unacknowledged = IF seg.f_ack THEN seg.ack ELSE @],
                      seg, R)
    ELSE t

(* A variant of full_ack_front that returns to the semaphore only the      *)
(* bytes of the segment that this ACK newly acknowledges                   *)
full_ack_front_remaining(t, R) ==
    [semaphore_signal(
       update_cwnd(
         IF Head(t.snd.data).nr_transmits = 0
         THEN update_rto([t EXCEPT !.snd.unacknowledged =
                                      SeqAdd(@, Head(t.snd.data).data_remaining)], R)
         ELSE [t EXCEPT !.snd.unacknowledged =
                           SeqAdd(@, Head(t.snd.data).data_remaining)],
         Head(t.snd.data).data_remaining),
       Head(t.snd.data).data_remaining)
     EXCEPT !.snd.data = Tail(@)]

(* data_segment_acked, the body of the loop: the front segment is fully    *)
(* acknowledged                                                            *)
full_ack_front(t, R) ==
    [semaphore_signal(
       update_cwnd(
         IF Head(t.snd.data).nr_transmits = 0
         THEN update_rto([t EXCEPT !.snd.unacknowledged =
                                      SeqAdd(@, Head(t.snd.data).data_remaining)], R)
         ELSE [t EXCEPT !.snd.unacknowledged =
                           SeqAdd(@, Head(t.snd.data).data_remaining)],
         Head(t.snd.data).data_remaining),
       Head(t.snd.data).data_len)
     EXCEPT !.snd.data = Tail(@)]

(* tcb::data_segment_acked, the loop over the fully acknowledged segments: *)
(* the tcb and the bytes acknowledged                                      *)
RECURSIVE FullAcks(_, _, _, _)
FullAcks(t, seg_ack, R, total) ==
    IF /\ t.snd.data # <<>>
       /\ SeqLE(SeqAdd(t.snd.unacknowledged, Head(t.snd.data).data_remaining), seg_ack)
    THEN FullAcks(full_ack_front(t, R), seg_ack, R,
                  U32(total + Head(t.snd.data).data_remaining))
    ELSE [t |-> t, total |-> total]

(* data_segment_acked, the write through _snd.data.front() of the partial  *)
(* ACK.  On an empty deque that is undefined: ub says whether the write    *)
(* lands in unused storage ("benign") or the run aborts.                   *)
front_partially_acked(t, acked_bytes, ub) ==
    IF t.snd.data # <<>>
    THEN [t EXCEPT !.snd.data[1].data_remaining = @ - acked_bytes]
    ELSE IF ub = "benign" THEN t
    ELSE [t EXCEPT !.fx.fault = "front() of the empty _snd.data"]

(* data_segment_acked after the loop: the partial ACK of the front segment *)
partial_ack_front(f, seg_ack, ub) ==
    IF SeqLT(f.t.snd.unacknowledged, seg_ack)
    THEN [t |-> update_cwnd(
                  [front_partially_acked(f.t, SeqDiff(seg_ack, f.t.snd.unacknowledged), ub)
                     EXCEPT !.snd.unacknowledged = seg_ack],
                  SeqDiff(seg_ack, f.t.snd.unacknowledged)),
          total |-> U32(f.total + SeqDiff(seg_ack, f.t.snd.unacknowledged))]
    ELSE f

(* tcb::data_segment_acked: the tcb and total_acked_bytes *)
data_segment_acked(t, seg_ack, R, ub) ==
    partial_ack_front(FullAcks(t, seg_ack, R, 0), seg_ack, ub)

(* tcb::fast_retransmit *)
fast_retransmit(t) ==
    IF t.snd.data # <<>>
    THEN output(queue_packet([t EXCEPT !.snd.data[1].nr_transmits = @ + 1],
                             [Head(t.snd.data).p EXCEPT !.rtx = TRUE]))
    ELSE t

(* tcb::should_send_ack: the tcb and the result, named do_output after the *)
(* variable it is assigned to                                              *)
should_send_ack(t, seg_len) ==
    IF seg_len > t.rcv.mss
    THEN [t |-> [t EXCEPT !.nr_full_seg_received = 0, !.delayed_ack = FALSE],
          do_output |-> TRUE]
    ELSE IF seg_len = t.rcv.mss /\ t.nr_full_seg_received >= 1
    THEN [t |-> [t EXCEPT !.nr_full_seg_received = 0, !.delayed_ack = FALSE],
          do_output |-> TRUE]
    ELSE [t |-> [t EXCEPT !.nr_full_seg_received = IF seg_len = t.rcv.mss
                                                   THEN @ + 1 ELSE @,
                          !.delayed_ack = TRUE],
          do_output |-> FALSE]

(* The fragments of _rcv.out_of_order.map in the order of the map's keys *)
FragEnd(f) == SeqAdd(f.beg, Len(f.data))
FirstFragment(map, ref) ==
    CHOOSE f \in map : \A h \in map : SeqDiff(f.beg, ref) <= SeqDiff(h.beg, ref)
RECURSIVE InKeyOrder(_, _)
InKeyOrder(map, ref) ==
    IF map = {} THEN <<>>
    ELSE <<FirstFragment(map, ref)>> \o InKeyOrder(map \ {FirstFragment(map, ref)}, ref)

(* packet_merger::merge, which tcb::insert_out_of_order calls: the map     *)
(* then holds the union of the old fragments and the new one, as           *)
(* fragments that neither overlap nor touch.                               *)
Covers(f, s) == \E i \in 1 .. Len(f.data) : SeqAdd(f.beg, i - 1) = s
ByteAt(f, s) == f.data[SeqDiff(s, f.beg) + 1]
Covered(frags) == {s \in 0 .. SeqMod - 1 : \E f \in frags : Covers(f, s)}
RECURSIVE RunFrom(_, _)
RunFrom(frags, s) ==
    IF \E f \in frags : Covers(f, s)
    THEN <<ByteAt(CHOOSE f \in frags : Covers(f, s), s)>> \o RunFrom(frags, SeqAdd(s, 1))
    ELSE <<>>
MergedFragments(frags) ==
    {[beg |-> s, data |-> RunFrom(frags, s)] :
        s \in {c \in Covered(frags) : SeqAdd(c, -1) \notin Covered(frags)}}
packet_merger_merge(map, seg_seq, p) ==
    MergedFragments(map \cup {[beg |-> seg_seq, data |-> p]})

(* tcb::insert_out_of_order *)
insert_out_of_order(t, seg_seq, p) ==
    [t EXCEPT !.rcv.out_of_order = packet_merger_merge(@, seg_seq, p)]

(* A variant of merge_fragment that leaves out trim_front *)
merge_fragment_untrimmed(t, f) ==
    [t EXCEPT !.rcv.next = SeqAdd(@, Len(f.data)),
              !.rcv.data = Append(@, f.data),
              !.rcv.out_of_order = @ \ {f}]

(* merge_out_of_order, the first branch of the loop: the fragment f covers *)
(* RCV.NXT; what is left of it after trim_front goes to _rcv.data          *)
merge_fragment(t, f) ==
    [t EXCEPT !.rcv.next = SeqAdd(@, Len(f.data) - SeqDiff(t.rcv.next, f.beg)),
              !.rcv.data = Append(@, SubSeqFrom(f.data, SeqDiff(t.rcv.next, f.beg) + 1)),
              !.rcv.out_of_order = @ \ {f}]

(* tcb::merge_out_of_order, the loop over the fragments frags that are     *)
(* still to visit: the tcb and whether a fragment was merged               *)
RECURSIVE MergeLoop(_, _, _)
MergeLoop(t, frags, merged) ==
    IF frags = <<>> THEN [t |-> t, merged |-> merged]
    ELSE IF SeqLE(Head(frags).beg, t.rcv.next) /\ SeqLT(t.rcv.next, FragEnd(Head(frags)))
    THEN MergeLoop(merge_fragment(t, Head(frags)), Tail(frags), TRUE)
    ELSE IF SeqGE(t.rcv.next, FragEnd(Head(frags)))
    THEN MergeLoop([t EXCEPT !.rcv.out_of_order = @ \ {Head(frags)}], Tail(frags), merged)
    ELSE [t |-> t, merged |-> merged]

(* tcb::merge_out_of_order *)
merge_out_of_order(t) ==
    MergeLoop(t, InKeyOrder(t.rcv.out_of_order, t.rcv.next), FALSE)

(* the lambda update_window of tcb::input_handle_other_state *)
update_window(t, seg, seg_seq) ==
    IF seg.window = 0
    THEN start_persist_timer(
           [t EXCEPT !.snd.window = seg.window, !.snd.wl1 = seg_seq,
                     !.snd.wl2 = seg.ack, !.persist_time_out = t.rto])
    ELSE stop_persist_timer(
           [t EXCEPT !.snd.window = seg.window, !.snd.wl1 = seg_seq,
                     !.snd.wl2 = seg.ack])

(* the lambda set_retransmit_timer of tcb::input_handle_other_state *)
set_retransmit_timer(t) ==
    IF t.snd.data = <<>>
    THEN signal_all_data_acked(stop_retransmit_timer(t))
    ELSE start_retransmit_timer(t)

(* ack_new_data, fast recovery, the partial ACK after fast_retransmit: the *)
(* window is deflated, and the first partial ACK restarts the timer        *)
deflate_cwnd(t, acked_bytes) ==
    [t EXCEPT !.snd.cwnd = U32(U32(@ - acked_bytes)
                               + (IF acked_bytes >= t.snd.mss THEN t.snd.mss ELSE 0)),
              !.snd.partial_ack = U32(@ + 1),
              !.retransmit = IF U32(t.snd.partial_ack + 1) = 1 THEN TRUE ELSE @]

(* ack_new_data from "if (_snd.dupacks >= 3)" on *)
ack_recovery(t, seg, acked_bytes) ==
    IF t.snd.dupacks >= 3
    THEN IF SeqGT(seg.ack, t.snd.recover)
         THEN \* full ACK
              set_retransmit_timer(exit_fast_recovery(
                  [t EXCEPT !.snd.cwnd =
                       Min(t.snd.ssthresh,
                           U32(Max(flight_size(t), t.snd.mss) + t.snd.mss))]))
         ELSE \* partial ACK
              deflate_cwnd(fast_retransmit(t), acked_bytes)
    ELSE set_retransmit_timer(exit_fast_recovery(t))

(* ack_new_data after data_segment_acked returned a: the window update *)
ack_window(a, seg, seg_seq) ==
    ack_recovery(IF \/ SeqLT(a.t.snd.wl1, seg_seq)
                    \/ (a.t.snd.wl1 = seg_seq /\ SeqLE(a.t.snd.wl2, seg.ack))
                 THEN update_window(a.t, seg, seg_seq)
                 ELSE a.t,
                 seg, a.total)

(* input_handle_other_state, ESTABLISHED and CLOSE_WAIT, an ACK that moves *)
(* SND.UNA: SND.UNA < SEG.ACK =< SND.NXT                                   *)
ack_new_data(t, seg, seg_seq, R, ub) ==
    ack_window(data_segment_acked(t, seg.ack, R, ub), seg, seg_seq)

(* A variant of enter_fast_retransmit without the test of SND.recover *)
enter_fast_retransmit_always(t, seg) ==
    fast_retransmit(
      [t EXCEPT !.snd.recover = SeqAdd(t.snd.next, -1),
                !.snd.ssthresh =
                    Max(U32(flight_size(t) - t.snd.limited_transfer) \div 2,
                        U32(2 * t.snd.mss))])

(* ack_duplicate, the third duplicate ACK *)
enter_fast_retransmit(t, seg) ==
    IF SeqGT(SeqAdd(seg.ack, -1), t.snd.recover)
    THEN fast_retransmit(
           [t EXCEPT !.snd.recover = SeqAdd(t.snd.next, -1),
                     !.snd.ssthresh =
                         Max(U32(flight_size(t) - t.snd.limited_transfer) \div 2,
                             U32(2 * t.snd.mss))])
    ELSE t
inflate_cwnd(t) == [t EXCEPT !.snd.cwnd = U32(t.snd.ssthresh + 3 * t.snd.mss)]

(* ack_duplicate once _snd.dupacks is counted up *)
count_duplicate(t, seg) ==
    IF t.snd.dupacks = 1 \/ t.snd.dupacks = 2
    THEN [t |-> t, returned |-> FALSE, do_output_data |-> TRUE]
    ELSE IF t.snd.dupacks = 3
    THEN [t |-> inflate_cwnd(enter_fast_retransmit(t, seg)),
          returned |-> FALSE, do_output_data |-> FALSE]
    ELSE [t |-> [t EXCEPT !.snd.cwnd = U32(@ + t.snd.mss)],
          returned |-> FALSE, do_output_data |-> TRUE]

(* input_handle_other_state, ESTABLISHED and CLOSE_WAIT, a duplicate ACK:  *)
(* the tcb and do_output_data                                              *)
ack_duplicate(t, seg) == count_duplicate([t EXCEPT !.snd.dupacks = @ + 1], seg)

(* What a stage of input_handle_other_state hands to the next: the tcb,    *)
(* whether the handler returned in the stage, and do_output_data           *)
Returned(t) == [t |-> t, returned |-> TRUE, do_output_data |-> FALSE]
Continue(t, d) == [t |-> t, returned |-> FALSE, do_output_data |-> d]

(* check_ack, FIN_WAIT_1, CLOSING and LAST_ACK, e being what the stages    *)
(* before left                                                             *)
ack_of_fin(e, seg) ==
    IF e.returned THEN e
    ELSE IF in_state(e.t, {FIN_WAIT_1})
    THEN (IF seg.ack = SeqAdd(e.t.snd.next, 1)
          THEN Continue(do_local_fin_acked([e.t EXCEPT !.state = FIN_WAIT_2,
                                                       !.gh.off_edge =
                                                           @ \/ OffEdge(e.t.state, FIN_WAIT_2),
                                                       !.gh.fin_acked = TRUE]),
                        e.do_output_data)
          ELSE e)
    ELSE IF in_state(e.t, {CLOSING})
    THEN (IF seg.ack = SeqAdd(e.t.snd.next, 1)
          THEN Returned(do_time_wait(do_local_fin_acked([e.t EXCEPT !.gh.fin_acked = TRUE])))
          ELSE Returned(e.t))
    ELSE IF in_state(e.t, {LAST_ACK}) /\ seg.ack = SeqAdd(e.t.snd.next, 1)
    THEN Returned(do_closed(do_local_fin_acked([e.t EXCEPT !.gh.fin_acked = TRUE])))
    ELSE e

(* check_ack, ESTABLISHED STATE or CLOSE_WAIT STATE *)
ack_established(t, seg, seg_seq, seg_len, R, ub) ==
    IF ~ in_state(t, {ESTABLISHED, CLOSE_WAIT}) THEN Continue(t, FALSE)
    ELSE IF SeqLT(t.snd.unacknowledged, seg.ack) /\ SeqLE(seg.ack, t.snd.next)
    THEN Continue(ack_new_data(t, seg, seg_seq, R, ub), TRUE)
    ELSE IF /\ t.snd.data # <<>> /\ seg_len = 0
            /\ ~ seg.f_fin /\ ~ seg.f_syn
            /\ seg.ack = t.snd.unacknowledged
            /\ seg.window = t.snd.window
    THEN ack_duplicate(t, seg)
    ELSE IF SeqGT(seg.ack, t.snd.next) THEN Returned(output(t))
    ELSE IF t.snd.window = 0 /\ seg.window > 0
    THEN Continue(update_window(t, seg, seg_seq), TRUE)
    ELSE Continue(t, FALSE)

(* input_handle_other_state, 4.5 "fifth check the ACK field", the ACK bit  *)
(* being on: the tcb, whether the handler returned here, do_output_data.   *)
check_ack(t, seg, seg_seq, seg_len, R, ub) ==
    IF in_state(t, {SYN_RECEIVED})
    THEN IF SeqLE(t.snd.unacknowledged, seg.ack) /\ SeqLE(seg.ack, t.snd.next)
         THEN ack_of_fin(ack_established(do_established(t, R), seg, seg_seq, seg_len, R, ub),
                         seg)
         ELSE Returned(respond_with_reset(t, seg))
    ELSE ack_of_fin(ack_established(t, seg, seg_seq, seg_len, R, ub), seg)

(* process_text after merge_out_of_order returned m: the waiter is         *)
(* signalled and the acknowledgement decided                               *)
text_merged(m, seg_len) ==
    IF m.merged
    THEN [t |-> [signal_data_received(m.t) EXCEPT !.gh.gap_filled = TRUE],
          do_output |-> TRUE]
    ELSE should_send_ack(signal_data_received(m.t), seg_len)

(* input_handle_other_state, 4.7 "process the segment text": the tcb and   *)
(* do_output.  The mask of the source names FIN_WAIT_1 twice.              *)
process_text(t, p, seg_len) ==
    IF in_state(t, {ESTABLISHED, FIN_WAIT_1, FIN_WAIT_1}) /\ Len(p) > 0
    THEN text_merged(merge_out_of_order([t EXCEPT !.rcv.data = Append(@, p),
                                                  !.rcv.next = SeqAdd(@, seg_len)]),
                     seg_len)
    ELSE [t |-> t, do_output |-> FALSE]

(* A variant of fin_transition that enters TIME_WAIT from FIN_WAIT_1 too *)
fin_transition_skipping_closing(t) ==
    IF in_state(t, {SYN_RECEIVED, ESTABLISHED})
    THEN [t |-> [t EXCEPT !.state = CLOSE_WAIT,
                          !.gh.off_edge = @ \/ OffEdge(t.state, CLOSE_WAIT)],
          returned |-> FALSE]
    ELSE IF in_state(t, {FIN_WAIT_1, FIN_WAIT_2})
    THEN [t |-> do_time_wait(t), returned |-> TRUE]
    ELSE [t |-> t, returned |-> FALSE]

(* process_fin, the transitions once the FIN is acknowledged *)
fin_transition(t) ==
    IF in_state(t, {SYN_RECEIVED, ESTABLISHED})
    THEN [t |-> [t EXCEPT !.state = CLOSE_WAIT,
                          !.gh.off_edge = @ \/ OffEdge(t.state, CLOSE_WAIT)],
          returned |-> FALSE]
    ELSE IF in_state(t, {FIN_WAIT_1})
    THEN [t |-> [t EXCEPT !.state = CLOSING,
                          !.gh.off_edge = @ \/ OffEdge(t.state, CLOSING)],
          returned |-> FALSE]
    ELSE IF in_state(t, {FIN_WAIT_2})
    THEN [t |-> do_time_wait(t), returned |-> TRUE]
    ELSE [t |-> t, returned |-> FALSE]

(* input_handle_other_state, 4.8 "check the FIN bit", the FIN being in     *)
(* sequence: the tcb and whether the handler returned here                 *)
process_fin(t, fin_seq) ==
    fin_transition(output(clear_delayed_ack(signal_data_received(
        [t EXCEPT !.rcv.next = SeqAdd(fin_seq, 1), !.gh.fin_rcvd = TRUE]))))

(* input_handle_other_state, its last statement, do_output being false    *)
(* and do_output_data true: cs is what can_send returned                   *)
output_data_if_can_send(cs) ==
    IF cs.x > 0 THEN output(clear_delayed_ack(cs.t)) ELSE cs.t

(* input_handle_other_state, its last statement *)
final_output(t, do_output, do_output_data) ==
    IF do_output THEN output(clear_delayed_ack(t))
    ELSE IF do_output_data THEN output_data_if_can_send(can_send(t))
    ELSE t

(* handle_in_sequence after process_fin returned f *)
after_fin(f, do_output_data) ==
    IF f.returned THEN f.t ELSE final_output(f.t, FALSE, do_output_data)

(* handle_in_sequence after process_text returned x *)
after_text(x, do_output_data, seg, fin_seq) ==
    IF seg.f_fin /\ in_state(x.t, {CLOSED, LISTEN, SYN_SENT}) THEN x.t
    ELSE IF seg.f_fin /\ fin_seq = x.t.rcv.next
    THEN after_fin(process_fin(x.t, fin_seq), do_output_data)
    ELSE final_output(x.t, x.do_output, do_output_data)

(* handle_in_sequence after check_ack returned a *)
after_ack(a, seg, seg_seq, seg_len, p) ==
    IF a.returned THEN a.t
    ELSE IF /\ ~ in_state(a.t, {ESTABLISHED, FIN_WAIT_1, FIN_WAIT_1})
            /\ in_state(a.t, {CLOSE_WAIT, CLOSING, LAST_ACK, TIME_WAIT})
    THEN a.t
    ELSE after_text(process_text(a.t, p, seg_len), a.do_output_data, seg,
                    SeqAdd(seg_seq, seg_len))

(* input_handle_other_state from 4.2 "second check the RST bit" on, for a  *)
(* segment that begins at RCV.NXT                                          *)
handle_in_sequence(t, seg, seg_seq, seg_len, p, R, ub) ==
    IF seg.f_rst /\ in_state(t, {SYN_RECEIVED})
    THEN do_reset(resolve_connect([t EXCEPT !.gh.rst_acted = TRUE], "tcp_refused_error"))
    ELSE IF seg.f_rst /\ in_state(t, {ESTABLISHED, FIN_WAIT_1, FIN_WAIT_2, CLOSE_WAIT})
    THEN do_reset([t EXCEPT !.gh.rst_acted = TRUE])
    ELSE IF seg.f_rst /\ in_state(t, {CLOSING, LAST_ACK, TIME_WAIT})
    THEN do_closed([t EXCEPT !.gh.rst_acted = TRUE])
    ELSE IF seg.f_syn THEN do_reset(respond_with_reset(t, seg))
    ELSE IF ~ seg.f_ack THEN t
    ELSE after_ack(check_ack(t, seg, seg_seq, seg_len, R, ub), seg, seg_seq, seg_len, p)

(* input_handle_other_state, "ignore already acknowledged data": the bytes *)
(* trimmed from the front of the segment                                   *)
already_acked(t, seg) ==
    IF SeqLT(seg.seq, t.rcv.next)
    THEN Min(U32(SeqDiff(t.rcv.next, seg.seq)), seg.len)
    ELSE 0

(* input_handle_other_state from the trim on, dup bytes being trimmed *)
handle_trimmed(t, seg, dup, R, ub) ==
    IF SeqAdd(seg.seq, dup) # t.rcv.next
    THEN output(insert_out_of_order(t, SeqAdd(seg.seq, dup),
                                    PeerPayload(SeqAdd(seg.seq, dup), seg.len - dup)))
    ELSE handle_in_sequence(t, seg, SeqAdd(seg.seq, dup), seg.len - dup,
                            PeerPayload(SeqAdd(seg.seq, dup), seg.len - dup), R, ub)

(* The history of the payload that arrived while ESTABLISHED *)
note_arrival(t, seg) ==
    IF in_state(t, {ESTABLISHED})
    THEN [t EXCEPT !.gh.arrived = @ \cup {SeqAdd(seg.seq, i - 1) : i \in 1 .. seg.len}]
    ELSE t

(* tcb::input_handle_other_state *)
input_handle_other_state(t, seg, R, ub) ==
    IF ~ segment_acceptable(t, seg.seq, seg.len) THEN output(t)
    ELSE handle_trimmed(note_arrival(t, seg), seg, already_acked(t, seg), R, ub)

-----------------------------------------------------------------------------
(* The tcp object around the tcb *)

(* tcp::send_packet_without_tcb for each reset a handler produced: a       *)
(* packet that does not fit _queue_space is dropped.                       *)
RECURSIVE QueueStray(_, _, _)
QueueStray(q, space, rsts) ==
    IF rsts = <<>> THEN [q |-> q, space |-> space]
    ELSE IF space >= 1
    THEN QueueStray(Append(q, Head(rsts)), space - 1, Tail(rsts))
    ELSE QueueStray(q, space, Tail(rsts))

(* What a handler that ran on the tcb leaves behind: the tcb itself, and   *)
(* its calls of tcp::poll_tcb, _tcbs.erase and send_packet_without_tcb.    *)
(* The continuation of tcp::connect makes the connection handle once       *)
(* _connect_done holds a value.  A handler that hit an assertion or an     *)
(* undefined step ends the run where it began.                             *)
CommitWith(t, table, handle) ==
    IF t.fx.fault # "none"
    THEN /\ fault' = t.fx.fault
         /\ UNCHANGED <<tcb, tcbs, l2_pending, packetq, queue_space, conn>>
    ELSE /\ tcb' = [t EXCEPT !.fx = NoFx]
         /\ tcbs' = IF t.fx.erase THEN {} ELSE table
         /\ l2_pending' = l2_pending + t.fx.polls
         /\ packetq' = QueueStray(packetq, queue_space, t.fx.rsts).q
         /\ queue_space' = QueueStray(packetq, queue_space, t.fx.rsts).space
         /\ fault' = fault
         /\ conn' = IF handle = "connecting" /\ t.connect_done = "value" THEN "user"
                    ELSE IF handle = "connecting" /\ t.connect_done # "pending"
                    THEN "failed"
                    ELSE handle

Commit(t) == CommitWith(t, tcbs, conn)

Self == "tcb"

Init ==
    /\ tcb = NewTcb(0)
    /\ tcbs = {}
    /\ listening = FALSE
    /\ listen_q = <<>>
    /\ conn = "none"
    /\ l2_pending = 0
    /\ poll_tcbs = 0
    /\ tcb_polled = 0
    /\ packetq = <<>>
    /\ queue_space = StrayQueueSpace
    /\ wire = <<>>
    /\ fault = "none"

(* tcb::connect *)
tcb_connect(t, isn) ==
    do_syn_sent([do_setup_isn(t, isn) EXCEPT !.rcv.mss = LocalMss,
                                             !.rcv.window = RcvWindow])

(* tcp::connect: a tcb is made for a free 4-tuple, registered and connected *)
Connect(isn, g) ==
    /\ fault = "none"
    /\ conn = "none"
    /\ tcbs = {}
    /\ tcb.state = CLOSED /\ ~ tcb.gh.cleaned
    /\ CommitWith([tcb_connect(NewTcb(g), isn) EXCEPT !.gh.fut_connect = "pending"],
                  {Self}, "connecting")
    /\ UNCHANGED <<listening, listen_q, poll_tcbs, tcb_polled, wire>>

(* get_l2_dst_address resolves and the continuation of tcp::poll_tcb runs *)
L2Resolved ==
    /\ fault = "none"
    /\ l2_pending > 0
    /\ l2_pending' = l2_pending - 1
    /\ poll_tcbs' = poll_tcbs + 1
    /\ UNCHANGED <<tcb, tcbs, listening, listen_q, conn, tcb_polled, packetq,
                   queue_space, wire, fault>>

(* The loop of the packet provider over the c entries of the ready ring *)
RECURSIVE ProviderLoop(_, _, _)
RECURSIVE ProviderPolled(_, _, _)
ProviderLoop(t, c, n) ==
    IF c = 0 THEN [p |-> <<>>, t |-> t, n |-> n]
    ELSE ProviderPolled(get_packet(t), c, n)
(* The loop once get_packet returned r for the entry at the front *)
ProviderPolled(r, c, n) ==
    IF r.p # <<>> THEN [p |-> r.p, t |-> r.t, n |-> n + 1]
    ELSE ProviderLoop(r.t, c - 1, n + 1)

(* The provider once the loop over the ready ring returned r *)
ProviderDone(r) ==
    /\ Commit([r.t EXCEPT !.gh.stray_pulled = FALSE])
    /\ poll_tcbs' = poll_tcbs - r.n
    /\ tcb_polled' = (tcb_polled + r.n) % StrayPeriod
    /\ wire' = r.p

(* The packet provider registered by tcp::tcp *)
Provider ==
    /\ fault = "none"
    /\ ~ (packetq = <<>> /\ poll_tcbs = 0)
    /\ IF packetq # <<>> /\ (tcb_polled % StrayPeriod = 0 \/ poll_tcbs = 0)
       THEN /\ wire' = <<Head(packetq)>>
            /\ packetq' = Tail(packetq)
            /\ queue_space' = queue_space + 1
            /\ tcb' = [tcb EXCEPT !.gh.stray_pulled = poll_tcbs > 0]
            /\ UNCHANGED <<tcbs, l2_pending, poll_tcbs, tcb_polled, fault, conn>>
       ELSE ProviderDone(ProviderLoop(tcb, poll_tcbs, 0))
    /\ UNCHANGED <<listening, listen_q>>

(* The three timers of the tcb expire *)
RetransmitTimer ==
    /\ fault = "none"
    /\ tcb.retransmit
    /\ Commit(retransmit([tcb EXCEPT !.retransmit = FALSE]))
    /\ UNCHANGED <<listening, listen_q, poll_tcbs, tcb_polled, wire>>

PersistTimer ==
    /\ fault = "none"
    /\ tcb.persist
    /\ Commit(persist([tcb EXCEPT !.persist = FALSE]))
    /\ UNCHANGED <<listening, listen_q, poll_tcbs, tcb_polled, wire>>

DelayedAckTimer ==
    /\ fault = "none"
    /\ tcb.delayed_ack
    /\ Commit(delayed_ack_fired([tcb EXCEPT !.delayed_ack = FALSE]))
    /\ UNCHANGED <<listening, listen_q, poll_tcbs, tcb_polled, wire>>

(* connection::send; the caller does not send after close_write *)
Send(len) ==
    /\ fault = "none"
    /\ conn = "user"
    /\ ~ tcb.snd.closed /\ tcb.close_task = "none"
    /\ tcb.gh.sent + len <= MaxSendBytes
    /\ Commit(tcb_send(tcb, len))
    /\ UNCHANGED <<listening, listen_q, poll_tcbs, tcb_polled, wire>>

(* the reactor runs the continuation of a send() the semaphore has woken *)
SendResume ==
    /\ fault = "none"
    /\ tcb.send_tasks # <<>>
    /\ Commit(send_continuation([tcb EXCEPT !.send_tasks = Tail(@)], Head(tcb.send_tasks)))
    /\ UNCHANGED <<listening, listen_q, poll_tcbs, tcb_polled, wire>>

(* connection::close_write, called once *)
CloseWrite ==
    /\ fault = "none"
    /\ conn = "user"
    /\ ~ tcb.snd.closed /\ tcb.close_task = "none"
    /\ ~ in_state(tcb, {CLOSED})
    /\ Commit(tcb_close(tcb))
    /\ UNCHANGED <<listening, listen_q, poll_tcbs, tcb_polled, wire>>

(* the reactor runs the continuation of close() *)
CloseResume ==
    /\ fault = "none"
    /\ tcb.close_task = "ready"
    /\ Commit(close_continuation(tcb))
    /\ UNCHANGED <<listening, listen_q, poll_tcbs, tcb_polled, wire>>

(* connection::read, when there is something to return *)
Read ==
    /\ fault = "none"
    /\ conn = "user"
    /\ tcb.rcv.data # <<>>
    /\ Commit(tcb_read(tcb))
    /\ UNCHANGED <<listening, listen_q, poll_tcbs, tcb_polled, wire>>

(* connection::wait_for_data, one wait at a time *)
WaitForData ==
    /\ fault = "none"
    /\ conn = "user"
    /\ tcb.gh.fut_data = "none"
    /\ Commit(wait_for_data(tcb))
    /\ UNCHANGED <<listening, listen_q, poll_tcbs, tcb_polled, wire>>

(* the user takes the future's result *)
DataFutureTaken ==
    /\ fault = "none"
    /\ tcb.gh.fut_data = "ready"
    /\ Commit([tcb EXCEPT !.gh.fut_data = "none"])
    /\ UNCHANGED <<listening, listen_q, poll_tcbs, tcb_polled, wire>>

(* tcp::listen: the listener registers itself in _listening *)
Listen ==
    /\ fault = "none"
    /\ ~ listening
    /\ listening' = TRUE
    /\ UNCHANGED <<tcb, tcbs, listen_q, conn, l2_pending, poll_tcbs, tcb_polled,
                   packetq, queue_space, wire, fault>>

(* listener::accept, once _q is not empty *)
Accept ==
    /\ fault = "none"
    /\ listen_q # <<>>
    /\ listen_q' = Tail(listen_q)
    /\ conn' = "user"
    /\ UNCHANGED <<tcb, tcbs, listening, l2_pending, poll_tcbs, tcb_polled,
                   packetq, queue_space, wire, fault>>

(* The history of the segments tcp::received handles: one that found no   *)
(* tcb, and a reset the handler produced for a segment with RST.           *)
note_stray(t, seg) == [t EXCEPT !.gh.stray = [n |-> 1 - @.n, seg |-> <<seg>>]]
note_reply(t, seg) ==
    IF seg.f_rst /\ t.fx.rsts # <<>> THEN [t EXCEPT !.gh.rst_answered = TRUE] ELSE t

(* tcp::received for a segment of the 4-tuple.  isn is what get_isn would  *)
(* return and g what a new tcb's uninitialized members would hold.  The    *)
(* model follows one tcb, so a SYN makes one only while none was made.     *)
Received(seg, R, ub, isn, g) ==
    /\ fault = "none"
    /\ IF tcbs = {}
       THEN IF ~ listening \/ Len(listen_q) >= ListenQueueLen
            THEN /\ Commit(note_reply(respond_with_reset(note_stray(tcb, seg), seg), seg))
                 /\ UNCHANGED listen_q
            ELSE IF seg.f_rst THEN Commit(note_stray(tcb, seg)) /\ UNCHANGED listen_q
            ELSE IF seg.f_ack
            THEN /\ Commit(note_reply(respond_with_reset(note_stray(tcb, seg), seg), seg))
                 /\ UNCHANGED listen_q
            ELSE IF seg.f_syn
            THEN /\ conn = "none"
                 /\ listen_q' = Append(listen_q, Self)
                 /\ CommitWith(note_reply(input_handle_listen_state(
                                             note_stray([NewTcb(g) EXCEPT !.gh.stray = tcb.gh.stray],
                                                        seg), seg, isn), seg),
                               {Self}, "queued")
            ELSE Commit(note_stray(tcb, seg)) /\ UNCHANGED listen_q
       ELSE /\ IF tcb.state = SYN_SENT
               THEN Commit(note_reply(input_handle_syn_sent_state(tcb, seg, R), seg))
               ELSE Commit(note_reply(input_handle_other_state(tcb, seg, R, ub), seg))
            /\ UNCHANGED listen_q
    /\ UNCHANGED <<listening, poll_tcbs, tcb_polled, wire>>

-----------------------------------------------------------------------------
(* The peer and the network: the segments that may arrive *)

PeerIsn == SeqMod - 3     \* the peer's initial sequence number
LocalIsn == SeqMod - 2    \* what get_isn returns
PeerMss == LocalMss       \* the MSS option of the peer's SYN
MaxSegLen == 2            \* payload bytes of one arriving segment
RttSamples == {300}       \* round-trip samples, in milliseconds
Garbage == {0}            \* what an uninitialized member may hold

Seg(seq, ack, syn, ackf, fin, rst, len, win) ==
    [seq |-> seq, ack |-> ack, f_syn |-> syn, f_ack |-> ackf, f_fin |-> fin,
     f_rst |-> rst, len |-> len, window |-> win, mss |-> PeerMss]

(* The flags of a segment, as <<SYN, ACK, FIN, RST>> *)
F_ACK == <<FALSE, TRUE, FALSE, FALSE>>
F_NONE == <<FALSE, FALSE, FALSE, FALSE>>
F_SYN == <<TRUE, FALSE, FALSE, FALSE>>
F_SYNACK == <<TRUE, TRUE, FALSE, FALSE>>
F_RST == <<FALSE, FALSE, FALSE, TRUE>>
F_RSTACK == <<FALSE, TRUE, FALSE, TRUE>>
F_FINACK == <<FALSE, TRUE, TRUE, FALSE>>
F_FIN == <<FALSE, FALSE, TRUE, FALSE>>
Flags == {F_ACK, F_NONE, F_SYN, F_SYNACK, F_RST, F_RSTACK, F_FINACK, F_FIN}

(* The end of the peer's stream *)
PeerEnd(irs) == SeqAdd(irs, 1 + MaxPeerBytes)

(* Segments for a 4-tuple without a tcb, or with one in SYN_SENT *)
OpenSegments(flags, wins) ==
    {Seg(PeerIsn, ack, fl[1], fl[2], fl[3], fl[4], 0, win) :
        ack \in {LocalIsn, SeqAdd(LocalIsn, 1)}, fl \in flags, win \in wins}

(* Segments for a tcb that has synchronized: seq is RCV.NXT + d for d in   *)
(* offs, inside the peer's stream; ack is around SND.UNA and SND.NXT.      *)
SyncSegments(offs, lens, flags, wins) ==
    {seg \in {Seg(SeqAdd(tcb.rcv.next, d), ack, fl[1], fl[2], fl[3], fl[4], len, win) :
                d \in offs,
                ack \in {tcb.snd.unacknowledged, SeqAdd(tcb.snd.unacknowledged, 1),
                         tcb.snd.next, SeqAdd(tcb.snd.next, 1)},
                fl \in flags, len \in lens, win \in wins} :
        /\ SeqGT(seg.seq, tcb.rcv.initial) \/ seg.len = 0
        /\ SeqLE(SeqAdd(seg.seq, seg.len), PeerEnd(tcb.rcv.initial))}

(* A segment the handler would count as a duplicate ACK *)
IsDupAck(seg) ==
    /\ in_state(tcb, {ESTABLISHED, CLOSE_WAIT})
    /\ tcb.snd.data # <<>> /\ seg.len = 0
    /\ seg.f_ack /\ ~ seg.f_fin /\ ~ seg.f_syn /\ ~ seg.f_rst
    /\ seg.ack = tcb.snd.unacknowledged
    /\ seg.window = tcb.snd.window

Unsynchronized == tcbs = {} \/ tcb.state = SYN_SENT

(* The clock of the environment: the retransmit and the persist timer     *)
(* expire only while their back-off is below MaxTimeouts doublings.        *)
FewTimeouts == tcb.rto < RtoMin * 2 ^ MaxTimeouts
FewProbes == tcb.persist_time_out < RtoMin * 2 ^ MaxTimeouts

(* The receive side, in order: an active open, then segments at RCV.NXT,   *)
(* the peer's FIN and a reset, while the user reads and closes.            *)
(* The peer acknowledges what was sent, the local FIN included.            *)
RecvSegments ==
    IF Unsynchronized THEN OpenSegments({F_SYNACK}, {RcvWindow})
    ELSE {seg \in SyncSegments({0}, 0 .. MaxSegLen, {F_ACK, F_FINACK, F_RST},
                               {RcvWindow}) :
             seg.ack \in {tcb.snd.next, SeqAdd(tcb.snd.next, 1)}}

NextRecv ==
    \/ \E g \in Garbage : Connect(LocalIsn, g)
    \/ \E seg \in RecvSegments, R \in RttSamples, ub \in {"benign", "abort"}, g \in Garbage :
          Received(seg, R, ub, LocalIsn, g)
    \/ L2Resolved
    \/ Provider
    \/ DelayedAckTimer
    \/ CloseWrite
    \/ Read

SpecRecv == Init /\ [][NextRecv]_vars

(* The receive side, out of order: an active open, then segments before,   *)
(* at and beyond RCV.NXT, while the user waits for data and reads.  The    *)
(* peer acknowledges what was sent, and its FIN ends its stream.           *)
OooSegments ==
    IF Unsynchronized THEN OpenSegments({F_SYNACK}, {RcvWindow})
    ELSE {seg \in SyncSegments({-1, 0, 1, 2}, 1 .. MaxSegLen, {F_ACK, F_FINACK},
                               {RcvWindow}) :
             /\ seg.ack = tcb.snd.next
             /\ seg.f_fin => SeqAdd(seg.seq, seg.len) = PeerEnd(tcb.rcv.initial)}

NextOoo ==
    \/ \E g \in Garbage : Connect(LocalIsn, g)
    \/ \E seg \in OooSegments, R \in RttSamples, ub \in {"benign", "abort"}, g \in Garbage :
          Received(seg, R, ub, LocalIsn, g)
    \/ L2Resolved
    \/ Provider
    \/ DelayedAckTimer
    \/ Read
    \/ WaitForData
    \/ DataFutureTaken

SpecOoo == Init /\ [][NextOoo]_vars

(* The send side: an active open, then the user's data, its                *)
(* acknowledgments, duplicate ACKs, retransmissions and the user's close.  *)
SendSegments ==
    IF tcbs = {} THEN {}
    ELSE IF tcb.state = SYN_SENT THEN OpenSegments({F_SYNACK}, {RcvWindow})
    ELSE {seg \in SyncSegments({0}, {0}, {F_ACK}, {RcvWindow}) :
             IsDupAck(seg) => tcb.snd.dupacks < MaxDupAcks}

NextSend ==
    \/ \E g \in Garbage : Connect(LocalIsn, g)
    \/ \E seg \in SendSegments, R \in RttSamples, ub \in {"benign", "abort"}, g \in Garbage :
          Received(seg, R, ub, LocalIsn, g)
    \/ L2Resolved
    \/ Provider
    \/ FewTimeouts /\ RetransmitTimer
    \/ \E len \in 1 .. UserQueueSpace : Send(len)
    \/ SendResume
    \/ CloseWrite
    \/ CloseResume

SpecSend == Init /\ [][NextSend]_vars

(* A passive open whose user sends as soon as accept() returns, which is   *)
(* as soon as the SYN has arrived.                                         *)
EarlySegments ==
    IF tcbs = {}
    THEN IF listening /\ conn = "none" THEN OpenSegments({F_SYN}, {RcvWindow}) ELSE {}
    ELSE {seg \in SyncSegments({0}, {0}, {F_ACK}, {RcvWindow}) :
             IsDupAck(seg) => tcb.snd.dupacks < MaxDupAcks}

NextEarly ==
    \/ Listen
    \/ Accept
    \/ \E seg \in EarlySegments, R \in RttSamples, ub \in {"benign", "abort"}, g \in Garbage :
          Received(seg, R, ub, LocalIsn, g)
    \/ L2Resolved
    \/ Provider
    \/ \E len \in 1 .. UserQueueSpace : Send(len)
    \/ SendResume

SpecEarly == Init /\ [][NextEarly]_vars

(* The life of a connection after an active open: every flag combination  *)
(* in every state, and the user's calls with their futures.                *)
LifeSegments ==
    IF tcbs = {} THEN {}
    ELSE IF tcb.state = SYN_SENT THEN OpenSegments(Flags, {RcvWindow})
    ELSE {seg \in SyncSegments({0}, {0}, Flags, {RcvWindow}) :
             seg.ack \in {tcb.snd.next, SeqAdd(tcb.snd.next, 1)}}

NextLife ==
    \/ \E g \in Garbage : Connect(LocalIsn, g)
    \/ \E seg \in LifeSegments, R \in RttSamples, ub \in {"benign", "abort"}, g \in Garbage :
          Received(seg, R, ub, LocalIsn, g)
    \/ L2Resolved
    \/ Provider
    \/ \E len \in 1 .. UserQueueSpace : Send(len)
    \/ SendResume
    \/ CloseWrite
    \/ CloseResume
    \/ WaitForData
    \/ DataFutureTaken

SpecLife == Init /\ [][NextLife]_vars

(* The peer falls silent: after the handshake it may acknowledge data once *)
(* with a closed window, and then nothing arrives; the retransmit and the  *)
(* persist timer run until the tcb gives up.                               *)
TimeoutSegments ==
    IF tcbs = {} THEN {}
    ELSE IF tcb.state = SYN_SENT THEN OpenSegments({F_SYNACK}, {RcvWindow})
    ELSE {seg \in SyncSegments({0}, {0}, {F_ACK}, {0}) :
             /\ tcb.snd.window # 0
             /\ seg.ack = tcb.snd.next
             /\ SeqLT(tcb.snd.unacknowledged, tcb.snd.next)}

NextTimeout ==
    \/ \E g \in Garbage : Connect(LocalIsn, g)
    \/ \E seg \in TimeoutSegments, R \in RttSamples, ub \in {"benign", "abort"}, g \in Garbage :
          Received(seg, R, ub, LocalIsn, g)
    \/ L2Resolved
    \/ Provider
    \/ RetransmitTimer
    \/ FewProbes /\ PersistTimer
    \/ \E len \in 1 .. UserQueueSpace : Send(len)
    \/ SendResume
    \/ CloseWrite
    \/ CloseResume
    \/ WaitForData

SpecTimeout == Init /\ [][NextTimeout]_vars
-----------------------------------------------------------------------------
(* Properties *)

Range(q) == {q[i] : i \in 1 .. Len(q)}

(* The payload bytes the tcb has accepted: RCV.NXT has moved from IRS+1    *)
(* over them, and over the peer's FIN once that was taken.                 *)
AcceptedLen(t) ==
    SeqDiff(t.rcv.next, SeqAdd(t.rcv.initial, 1)) - (IF t.gh.fin_rcvd THEN 1 ELSE 0)

(* What read() has returned and what it would return now *)
Delivered(t) == t.gh.reads \o Flatten(t.rcv.data)

(* C1: when every data segment arrives in order, what read() returned and  *)
(* what it has yet to return is the accepted payload in arrival order,     *)
(* with no byte duplicated, reordered or lost, whatever the interleaving   *)
(* of read(), arrivals, close_write and teardown.  A teardown by the       *)
(* peer's reset is left out of the statement.                              *)
C1_ReadReturnsAccepted ==
    (conn = "user" /\ ~ tcb.gh.rst_acted) =>
        Delivered(tcb) = PeerPayload(SeqAdd(tcb.rcv.initial, 1), AcceptedLen(tcb))

(* The length of the longest range from IRS+1 on that has arrived *)
ArrivedPrefix(t) ==
    CHOOSE n \in 0 .. MaxPeerBytes :
        /\ \A i \in 0 .. n - 1 : SeqAdd(t.rcv.initial, 1 + i) \in t.gh.arrived
        /\ n < MaxPeerBytes => SeqAdd(t.rcv.initial, 1 + n) \notin t.gh.arrived

(* C2: whatever the order of arrival, once the segments that arrived cover *)
(* a contiguous range from IRS+1 on, RCV.NXT is past the range, no         *)
(* fragment of the range is left in the out-of-order map, and read()       *)
(* yields the range in sequence order.                                     *)
C2_OutOfOrderDelivered ==
    conn = "user" =>
        /\ SeqDiff(tcb.rcv.next, SeqAdd(tcb.rcv.initial, 1)) >= ArrivedPrefix(tcb)
        /\ \A f \in tcb.rcv.out_of_order : \A i \in 0 .. ArrivedPrefix(tcb) - 1 :
              ~ Covers(f, SeqAdd(tcb.rcv.initial, 1 + i))
        /\ Delivered(tcb) = PeerPayload(SeqAdd(tcb.rcv.initial, 1), AcceptedLen(tcb))

(* A fragment that arrived ahead of RCV.NXT was merged, nothing is left in *)
(* the map, and read() has returned the whole stream of the peer.          *)
C2_Witness ==
    /\ tcb.gh.gap_filled
    /\ tcb.rcv.out_of_order = {}
    /\ tcb.gh.reads = PeerPayload(SeqAdd(tcb.rcv.initial, 1), MaxPeerBytes)

(* C3: from the choice of ISS on, no step of a tcb that is in the table    *)
(* moves SND.UNA back, in the order of sequence numbers.                   *)
C3_SndUnaMonotonic ==
    [][tcbs # {} => SeqGE(tcb'.snd.unacknowledged, tcb.snd.unacknowledged)]_vars

(* SND.UNA has moved over the SYN, all the user's bytes and the FIN, and   *)
(* has wrapped around on the way.                                          *)
C3_Witness ==
    /\ tcb.gh.fin_acked
    /\ SeqDiff(tcb.snd.unacknowledged, tcb.snd.initial) = MaxSendBytes + 2
    /\ tcb.snd.unacknowledged < tcb.snd.initial

(* A SYN that is not acknowledged: it occupies ISS, and SND.UNA is there.  *)
(* A FIN that was sent and is not acknowledged.                            *)
SynOutstanding(t) == t.snd.unacknowledged = t.snd.initial
FinOutstanding(t) == t.gh.fin_sent /\ ~ t.gh.fin_acked

(* C4: for a tcb in the table, SND.NXT - SND.UNA is the sum of             *)
(* data_remaining over SND.data, plus 1 exactly when a SYN or a FIN is     *)
(* sent and not acknowledged.                                              *)
C4_FlightAccounting ==
    tcbs # {} =>
        SeqDiff(tcb.snd.next, tcb.snd.unacknowledged)
            = flight_size(tcb)
              + (IF SynOutstanding(tcb) \/ FinOutstanding(tcb) THEN 1 ELSE 0)

(* C5: every segment that retransmit or fast_retransmit queued, up to the  *)
(* wire, has the SEQ and the payload of its first transmission.            *)
C5_RetransmitSameSegment ==
    \A p \in Range(wire) \cup Range(tcb.packetq) :
        p.rtx => /\ p.id \in 1 .. Len(tcb.gh.first_tx)
                 /\ p.seq = tcb.gh.first_tx[p.id].seq
                 /\ p.data = tcb.gh.first_tx[p.id].data

(* A retransmission is on the wire whose segment a partial ACK has reduced *)
C5_Witness ==
    /\ wire # <<>> /\ wire[1].rtx
    /\ tcb.snd.data # <<>>
    /\ Head(tcb.snd.data).p.id = wire[1].id
    /\ Head(tcb.snd.data).data_remaining < Head(tcb.snd.data).data_len
    /\ Len(wire[1].data) = Head(tcb.snd.data).data_len

(* The payload bytes transmitted for the first time so far *)
RECURSIVE FirstTxBytes(_)
FirstTxBytes(txs) ==
    IF txs = <<>> THEN 0 ELSE Len(Head(txs).data) + FirstTxBytes(Tail(txs))

(* C6: a step of a tcb in the table moves SND.NXT forward by the payload   *)
(* it transmits for the first time, plus 1 if it takes the ACK of the      *)
(* local FIN, and by nothing else: resending a SYN, a FIN or data leaves   *)
(* SND.NXT where it is.                                                    *)
C6_SndNxtAdvance ==
    [][tcbs # {} =>
          SeqDiff(tcb'.snd.next, tcb.snd.next)
              = FirstTxBytes(tcb'.gh.first_tx) - FirstTxBytes(tcb.gh.first_tx)
                + (IF tcb'.gh.fin_acked /\ ~ tcb.gh.fin_acked THEN 1 ELSE 0)]_vars

(* The SYN and the FIN were each sent again after a time-out, the user    *)
(* has sent bytes, and SND.NXT is ISS + 1 + the bytes the user sent.       *)
C6_Witness ==
    /\ tcb.snd.syn_retransmit > 0
    /\ tcb.snd.fin_retransmit > 0
    /\ tcb.gh.sent > 0
    /\ tcb.rto > RtoMin
    /\ SeqDiff(tcb.snd.next, tcb.snd.initial) = 1 + tcb.gh.sent

(* No future the tcb handed out is pending *)
NoFuturePending(t) ==
    /\ t.gh.fut_connect # "pending"
    /\ t.gh.fut_data # "pending"
    /\ t.close_task # "waiting"
    /\ t.gh.send_blocked = 0

(* C7: once a handler has acted on a reset from the peer, the tcb is       *)
(* CLOSED and out of the table, and none of its futures is pending.        *)
C7_ResetClosesAndFails ==
    tcb.gh.rst_acted => /\ tcb.state = CLOSED
                        /\ tcbs = {}
                        /\ NoFuturePending(tcb)

(* C8: the step in which cleanup() runs leaves no wait_for_data,           *)
(* wait_for_all_data_acked or blocked send() future pending.               *)
C8_CleanupFailsFutures ==
    [][(~ tcb.gh.cleaned /\ tcb'.gh.cleaned) =>
          /\ tcb'.gh.fut_data # "pending"
          /\ tcb'.close_task # "waiting"
          /\ tcb'.gh.send_blocked = 0]_vars

(* C9: between handlers, the tcb is in the table exactly when its state is *)
(* not CLOSED.                                                             *)
C9_InTableIffNotClosed == (tcbs # {}) <=> (tcb.state # CLOSED)

(* C10: once cleanup() has run, no timer of the tcb is armed and its send  *)
(* and receive queues are empty, in every later state.                     *)
C10_CleanedStaysQuiet ==
    tcb.gh.cleaned =>
        /\ ~ tcb.retransmit /\ ~ tcb.persist /\ ~ tcb.delayed_ack
        /\ tcb.snd.data = <<>> /\ tcb.snd.unsent = <<>>
        /\ tcb.rcv.data = <<>> /\ tcb.rcv.out_of_order = {}

(* C11: the future connect() returned is resolved with a connection only   *)
(* once the tcb has left SYN_SENT and SYN_RECEIVED, and it is pending only *)
(* while the attempt is alive: once the tcb is out of the table (the       *)
(* attempt ended by SYN exhaustion or by a reset) the future is resolved.  *)
C11_ConnectFutureResolved ==
    /\ tcb.gh.fut_connect = "value" => ~ in_state(tcb, {SYN_SENT, SYN_RECEIVED})
    /\ tcb.gh.fut_connect = "pending" => tcbs # {}

(* C12: while the peer does not answer an active open (the tcb stays in    *)
(* SYN_SENT), the retransmit timer asks for the SYN again at most          *)
(* MaxNrRetransmit times; the expiry after that fails connect_done with    *)
(* tcp_connect_error and removes the tcb from the table; and once that has *)
(* happened the provider emits no further SYN for the tcb.                 *)
C12_SynRetryBounded ==
    [][(tcb.state = SYN_SENT /\ tcb'.state = SYN_SENT) =>
          /\ tcb'.snd.syn_retransmit <= MaxNrRetransmit + 1
          /\ (~ tcb.gh.cleaned /\ tcb'.gh.cleaned) =>
                /\ tcb.snd.syn_retransmit = MaxNrRetransmit
                /\ tcb'.connect_done = "tcp_connect_error"
                /\ tcbs' = {}
          /\ (tcb.gh.cleaned /\ poll_tcbs' < poll_tcbs /\ wire' # <<>>) =>
                ~ wire'[1].f_syn]_vars

(* Retransmission to the end: an active open, the user's data, its         *)
(* acknowledgments in part and in whole, duplicate ACKs, and a retransmit  *)
(* timer that keeps expiring.                                              *)
RexmitSegments ==
    IF tcbs = {} THEN {}
    ELSE IF tcb.state = SYN_SENT
    THEN {seg \in OpenSegments({F_SYNACK}, {RcvWindow}) : seg.ack = SeqAdd(LocalIsn, 1)}
    ELSE {seg \in SyncSegments({0}, {0}, {F_ACK}, {RcvWindow}) :
             /\ SeqLE(seg.ack, tcb.snd.next)
             /\ IsDupAck(seg) => tcb.snd.dupacks < MaxDupAcks}

NextRexmit ==
    \/ \E g \in Garbage : Connect(LocalIsn, g)
    \/ \E seg \in RexmitSegments, R \in RttSamples, ub \in {"benign", "abort"}, g \in Garbage :
          Received(seg, R, ub, LocalIsn, g)
    \/ L2Resolved
    \/ Provider
    \/ RetransmitTimer
    \/ \E len \in 1 .. UserQueueSpace : Send(len)
    \/ SendResume

SpecRexmit == Init /\ [][NextRexmit]_vars

(* C13: no stored segment is sent again more than MaxNrRetransmit times,   *)
(* the retransmit timer's and the fast retransmissions counted together;   *)
(* and the expiry that finds the oldest segment at the limit cleans the    *)
(* connection up without queueing a reset.                                 *)
C13_DataRetransmitBounded ==
    [][/\ \A i \in 1 .. Len(tcb'.snd.data) :
             tcb'.snd.data[i].nr_transmits <= MaxNrRetransmit
       /\ (~ tcb.gh.cleaned /\ tcb'.gh.cleaned) =>
             /\ packetq' = packetq
             /\ \A p \in Range(tcb'.packetq) : ~ p.f_rst]_vars

(* The close of a connection whose peer keeps sending: an active open, the *)
(* user's close, the peer's data and FIN and its acknowledgment of the     *)
(* local FIN, while the retransmit and the delayed-ACK timer run.          *)
CloseSegments ==
    IF tcbs = {} THEN {}
    ELSE IF tcb.state = SYN_SENT
    THEN {seg \in OpenSegments({F_SYNACK}, {RcvWindow}) : seg.ack = SeqAdd(LocalIsn, 1)}
    ELSE {seg \in SyncSegments({0}, 0 .. MaxSegLen, {F_ACK, F_FINACK}, {RcvWindow}) :
             seg.ack \in {tcb.snd.next, SeqAdd(tcb.snd.next, 1)}}

NextClose ==
    \/ \E g \in Garbage : Connect(LocalIsn, g)
    \/ \E seg \in CloseSegments, R \in RttSamples, ub \in {"benign", "abort"}, g \in Garbage :
          Received(seg, R, ub, LocalIsn, g)
    \/ L2Resolved
    \/ Provider
    \/ RetransmitTimer
    \/ DelayedAckTimer
    \/ CloseWrite

SpecClose == Init /\ [][NextClose]_vars

(* C14: once the user has closed and every byte sent is acknowledged, the  *)
(* segments with FIN that leave the connection are the first one and at    *)
(* most MaxNrRetransmit retransmissions of it, each with the sequence      *)
(* number SND.NXT had when the user closed.                                *)
C14_FinSentAtMostSixTimes ==
    /\ tcb.gh.fin_tx <= 1 + MaxNrRetransmit
    /\ (wire # <<>> /\ wire[1].f_fin /\ ~ wire[1].f_rst /\ tcb.gh.fin_sent) =>
          wire[1].seq \in {tcb.snd.next, SeqAdd(tcb.snd.next, -1)}

(* C15: a connection that accept() returns has completed the handshake:    *)
(* its tcb is past SYN_RECEIVED and do_established has run on it.          *)
C15_AcceptReturnsEstablished ==
    [][(listen_q # <<>> /\ listen_q' = Tail(listen_q) /\ conn = "queued" /\ conn' = "user") =>
          /\ ~ in_state(tcb, {LISTEN, SYN_SENT, SYN_RECEIVED})
          /\ tcb.connect_done = "value"]_vars

(* Every demultiplexing path: a listener and an active open, and segments  *)
(* with every flag combination for a 4-tuple without a tcb, with a         *)
(* listener whose queue has room or is full, and with a tcb in any state.  *)
StraySegments ==
    IF tcbs = {}
    THEN {seg \in OpenSegments(Flags, {RcvWindow}) : seg.ack = SeqAdd(LocalIsn, 1)}
    ELSE IF tcb.state = SYN_SENT THEN OpenSegments(Flags, {RcvWindow})
    ELSE {seg \in SyncSegments({0}, {0}, Flags, {RcvWindow}) :
             seg.ack \in {tcb.snd.next, SeqAdd(tcb.snd.next, 1)}}

NextStray ==
    \/ Listen
    \/ Accept
    \/ \E g \in Garbage : Connect(LocalIsn, g)
    \/ \E seg \in StraySegments, R \in RttSamples, ub \in {"benign", "abort"}, g \in Garbage :
          Received(seg, R, ub, LocalIsn, g)
    \/ L2Resolved
    \/ Provider

SpecStray == Init /\ [][NextStray]_vars

(* The step in which tcp::received handled a segment that found no tcb *)
StrayReceived == tcb'.gh.stray.seg # <<>> /\ tcb'.gh.stray.n # tcb.gh.stray.n

(* The reset the segment seg is to be answered with *)
IsResetFor(p, seg) ==
    /\ p.f_rst /\ ~ p.f_syn /\ ~ p.f_fin
    /\ p.seq = IF seg.f_ack THEN seg.ack ELSE 0
    /\ p.f_ack = seg.f_syn
    /\ p.f_ack => p.ack = SeqAdd(seg.seq, 1)

C17_QueueFullDropsSilently ==
    [][(/\ StrayReceived
        /\ tcbs = {}
        /\ listening /\ Len(listen_q) >= ListenQueueLen
        /\ ~ tcb'.gh.stray.seg[1].f_syn
        /\ ~ tcb'.gh.stray.seg[1].f_rst) =>
          /\ packetq' = packetq
          /\ queue_space' = queue_space
          /\ tcb'.packetq = tcb.packetq]_vars

(* C18: no reset is produced for a segment that has RST itself, whether it *)
(* finds no tcb, a listener, a tcb in SYN_SENT or one in a later state.    *)
C18_NoResetForReset == ~ tcb.gh.rst_answered

(* a reset removed the tcb, a further segment with RST then found no tcb,  *)
(* and the stray queue stayed empty with its credit untouched              *)
C18_Witness ==
    /\ tcb.gh.rst_acted /\ tcbs = {}
    /\ tcb.gh.stray.seg # <<>> /\ tcb.gh.stray.seg[1].f_rst
    /\ packetq = <<>> /\ queue_space = StrayQueueSpace /\ wire = <<>>

(* Scenario 1: a passive open, ScenarioBytes bytes of the peer's data in   *)
(* order, the peer's FIN, the user's close and the peer's last ACK.  The   *)
(* peer sends the next segment of the script for the state of the tcb, its *)
(* ACKs once the SYN,ACK and the FIN have left; the user closes after      *)
(* reading what arrived.                                                   *)
ScenarioBytes == 5

ScenarioSegments ==
    IF tcbs = {}
    THEN IF listening /\ conn = "none"
         THEN {Seg(PeerIsn, 0, TRUE, FALSE, FALSE, FALSE, 0, RcvWindow)}
         ELSE {}
    ELSE IF tcb.state = SYN_RECEIVED
    THEN IF tcb.poll_active THEN {}
         ELSE {Seg(SeqAdd(PeerIsn, 1), SeqAdd(LocalIsn, 1), FALSE, TRUE, FALSE, FALSE, 0,
                   RcvWindow)}
    ELSE IF tcb.state = ESTABLISHED
    THEN IF AcceptedLen(tcb) < ScenarioBytes
         THEN {Seg(tcb.rcv.next, SeqAdd(LocalIsn, 1), FALSE, TRUE, FALSE, FALSE, len, RcvWindow) :
                  len \in 1 .. Min(MaxSegLen, ScenarioBytes - AcceptedLen(tcb))}
         ELSE {Seg(tcb.rcv.next, SeqAdd(LocalIsn, 1), FALSE, TRUE, TRUE, FALSE, 0, RcvWindow)}
    ELSE IF tcb.state = LAST_ACK /\ tcb.gh.fin_tx > 0
    THEN {Seg(tcb.rcv.next, SeqAdd(LocalIsn, 2), FALSE, TRUE, FALSE, FALSE, 0, RcvWindow)}
    ELSE {}

NextScenario ==
    \/ Listen
    \/ Accept
    \/ \E seg \in ScenarioSegments, R \in RttSamples, ub \in {"benign", "abort"}, g \in Garbage :
          Received(seg, R, ub, LocalIsn, g)
    \/ L2Resolved
    \/ Provider
    \/ DelayedAckTimer
    \/ Read
    \/ tcb.state = CLOSE_WAIT /\ tcb.rcv.data = <<>> /\ CloseWrite

SpecScenario == Init /\ [][NextScenario]_vars

(* C19: in scenario 1 the SYN makes a tcb in SYN_RECEIVED that answers     *)
(* SYN,ACK with SEQ = ISS and ACK = s + 1; the ACK of ISS + 1 makes it     *)
(* ESTABLISHED with SND.UNA = SND.NXT = ISS + 1; the bytes read() returns  *)
(* are the peer's bytes in order; the peer's FIN makes it CLOSE_WAIT and   *)
(* is acknowledged with its SEQ + 1; the user's close sends FIN,ACK with   *)
(* SEQ = ISS + 1; the ACK of ISS + 2 makes it CLOSED and removes it from   *)
(* the table.  No step of the script ends the run.                         *)
C19_ScenarioOne ==
    [][/\ fault' = "none"
       /\ (tcbs = {} /\ tcbs' # {}) =>
             /\ tcb'.state = SYN_RECEIVED
             /\ tcb'.snd.initial = LocalIsn /\ tcb'.rcv.next = SeqAdd(PeerIsn, 1)
       /\ (wire' # wire /\ wire' # <<>> /\ wire'[1].f_syn) =>
             /\ wire'[1].f_ack /\ wire'[1].seq = LocalIsn
             /\ wire'[1].ack = SeqAdd(PeerIsn, 1)
       /\ (tcb.state = SYN_RECEIVED /\ tcb'.state # SYN_RECEIVED) =>
             /\ tcb'.state = ESTABLISHED
             /\ tcb'.snd.unacknowledged = SeqAdd(LocalIsn, 1)
             /\ tcb'.snd.next = SeqAdd(LocalIsn, 1)
       /\ Delivered(tcb') = PeerPayload(SeqAdd(PeerIsn, 1), AcceptedLen(tcb'))
       /\ (tcb.state = ESTABLISHED /\ tcb'.state # ESTABLISHED) =>
             /\ tcb'.state = CLOSE_WAIT
             /\ AcceptedLen(tcb') = ScenarioBytes
             /\ tcb'.rcv.next = SeqAdd(PeerIsn, ScenarioBytes + 2)
       /\ (wire' # wire /\ wire' # <<>> /\ in_state(tcb', {CLOSE_WAIT, LAST_ACK})) =>
             /\ wire'[1].f_ack /\ wire'[1].ack = SeqAdd(PeerIsn, ScenarioBytes + 2)
       /\ (wire' # wire /\ wire' # <<>> /\ wire'[1].f_fin) =>
             /\ wire'[1].f_ack /\ wire'[1].seq = SeqAdd(LocalIsn, 1)
       /\ (tcb.state = LAST_ACK /\ tcb'.state # LAST_ACK) =>
             /\ tcb'.state = CLOSED /\ tcbs' = {}]_vars

(* The step in which the third duplicate ACK in a row is counted *)
ThirdDupAck == tcb.snd.dupacks = 2 /\ tcb'.snd.dupacks = 3

(* The third duplicate ACK has started a fast retransmit: ssthresh is set  *)
(* from the flight size, SND.recover is SND.NXT - 1, and the head of       *)
(* _snd.data, counted once more, is queued again and nothing else is.      *)
FastRetransmitted ==
    /\ tcb'.snd.ssthresh =
          Max(U32(flight_size(tcb) - tcb.snd.limited_transfer) \div 2, U32(2 * tcb.snd.mss))
    /\ tcb'.snd.recover = SeqAdd(tcb.snd.next, -1)
    /\ tcb'.packetq = Append(tcb.packetq, [Head(tcb.snd.data).p EXCEPT !.rtx = TRUE])
    /\ tcb'.snd.data = [tcb.snd.data EXCEPT ![1].nr_transmits = @ + 1]
    /\ tcb'.snd.cwnd = U32(tcb'.snd.ssthresh + 3 * tcb.snd.mss)

(* C20: the third duplicate ACK in a row is counted only in ESTABLISHED    *)
(* and CLOSE_WAIT.  If SEG.ACK - 1 is beyond SND.recover, ssthresh becomes *)
(* max((flight_size - limited_transfer) / 2, 2 smss) and the head segment  *)
(* of _snd.data, and only that one, is queued again; otherwise ssthresh    *)
(* stays and nothing is queued.  In both cases cwnd becomes                *)
(* ssthresh + 3 smss.                                                      *)
C20_ThirdDupAck ==
    [][ThirdDupAck =>
          /\ in_state(tcb, {ESTABLISHED, CLOSE_WAIT})
          /\ IF SeqGT(SeqAdd(tcb.snd.unacknowledged, -1), tcb.snd.recover)
             THEN FastRetransmitted
             ELSE /\ tcb'.snd.ssthresh = tcb.snd.ssthresh
                  /\ tcb'.snd.recover = tcb.snd.recover
                  /\ tcb'.packetq = tcb.packetq
                  /\ tcb'.snd.data = tcb.snd.data
                  /\ tcb'.snd.cwnd = U32(tcb.snd.ssthresh + 3 * tcb.snd.mss)]_vars

(* C20 as first stated: every third duplicate ACK in a row sets ssthresh   *)
(* from the flight size, cwnd to ssthresh + 3 smss, and queues the head    *)
(* segment again.                                                          *)
C20_ThirdDupAckAlways == [][ThirdDupAck => FastRetransmitted]_vars

(* the third duplicate ACK has queued the head segment again: it was       *)
(* retransmitted once and not by the timer, which would have doubled the   *)
(* RTO and cleared dupacks                                                 *)
C20_Witness ==
    /\ in_state(tcb, {ESTABLISHED, CLOSE_WAIT})
    /\ tcb.snd.dupacks = 3 /\ tcb.snd.data # <<>>
    /\ tcb.snd.data[1].nr_transmits = 1
    /\ tcb.snd.data[1].data_remaining = tcb.snd.data[1].data_len
    /\ tcb.rto = RtoMin
    /\ tcb.snd.recover = SeqAdd(tcb.snd.next, -1)
    /\ tcb.snd.cwnd = U32(tcb.snd.ssthresh + 3 * tcb.snd.mss)
    /\ \E i \in 1 .. Len(tcb.packetq) :
          tcb.packetq[i] = [tcb.snd.data[1].p EXCEPT !.rtx = TRUE]

EarlyRexmitSegments ==
    IF tcbs = {}
    THEN IF listening /\ conn = "none"
         THEN {seg \in OpenSegments({F_SYN}, {RcvWindow - 1}) : seg.ack = LocalIsn}
         ELSE {}
    ELSE {seg \in SyncSegments({0}, {0}, {F_ACK}, {RcvWindow}) :
             /\ seg.ack = tcb.snd.next
             /\ SeqLT(tcb.snd.unacknowledged, tcb.snd.next)}

NextEarlyRexmit ==
    \/ Listen
    \/ Accept
    \/ \E seg \in EarlyRexmitSegments, R \in RttSamples, ub \in {"benign", "abort"}, g \in Garbage :
          Received(seg, R, ub, LocalIsn, g)
    \/ L2Resolved
    \/ Provider
    \/ ~ tcb.gh.cleaned /\ RetransmitTimer
    \/ \E len \in 1 .. UserQueueSpace : Send(len)
    \/ SendResume

SpecEarlyRexmit == Init /\ [][NextEarlyRexmit]_vars

(* The expiry gives up on the SYN or the FIN: tcb::retransmit returns      *)
(* after cleanup() and does not reach the data                             *)
GivesUp(t) ==
    \/ syn_needs_on(t) /\ t.snd.syn_retransmit >= MaxNrRetransmit
    \/ fin_needs_on(t) /\ t.snd.fin_retransmit >= MaxNrRetransmit

RtoSamples == {0, 300, 70000}

RtoSegments ==
    IF tcbs = {} THEN {}
    ELSE IF tcb.state = SYN_SENT
    THEN {seg \in OpenSegments({F_SYNACK}, {RcvWindow}) : seg.ack = SeqAdd(LocalIsn, 1)}
    ELSE {seg \in SyncSegments({0}, {0}, {F_ACK}, {RcvWindow}) :
             /\ seg.ack = tcb.snd.next
             /\ SeqLT(tcb.snd.unacknowledged, tcb.snd.next)}

NextRto ==
    \/ \E g \in Garbage : Connect(LocalIsn, g)
    \/ \E seg \in RtoSegments, R \in RtoSamples, ub \in {"benign", "abort"}, g \in Garbage :
          Received(seg, R, ub, LocalIsn, g)
    \/ L2Resolved
    \/ Provider
    \/ ~ tcb.gh.cleaned /\ RetransmitTimer
    \/ Send(1)

SpecRto == Init /\ [][NextRto]_vars

(* C22: the retransmission timeout is at least RtoMin and at most RtoMax,  *)
(* whatever the round-trip samples and however often the timer backed off. *)
C22_RtoInRange == RtoMin <= tcb.rto /\ tcb.rto <= RtoMax

(* the timeout is at RtoMax after the timer has backed off, and a sample   *)
(* has been taken                                                          *)
C22_Witness ==
    /\ tcb.state = ESTABLISHED /\ ~ tcb.snd.first_rto_sample
    /\ tcb.rto = RtoMax
    /\ tcb.snd.data # <<>> /\ tcb.snd.data[1].nr_transmits > 0
    /\ tcb.snd.srtt + Max(RtoClkGranularity, 4 * tcb.snd.rttvar) < RtoMax

(* C23: while a tcb is on the ready ring, the provider returns a stray     *)
(* packet on at most one of StrayPeriod calls in a row, so never on two    *)
(* calls in a row; with no tcb on the ring it returns the oldest stray     *)
(* packet, if there is one.                                                *)
C23_StrayAtMostOncePerPeriod ==
    [][Provider =>
          /\ (poll_tcbs > 0 /\ tcb.gh.stray_pulled) =>
                ~ (wire' # <<>> /\ wire'[1].f_rst)
          /\ (poll_tcbs = 0 /\ packetq # <<>>) =>
                wire' = <<Head(packetq)>> /\ packetq' = Tail(packetq)]_vars

(* C24: in each of ESTABLISHED, FIN_WAIT_1 and FIN_WAIT_2 the handler      *)
(* appends the payload of a segment that begins at RCV.NXT and fits the    *)
(* receive window to RCV.data and advances RCV.NXT by its length, and by   *)
(* one more over a FIN the segment carries, which takes a tcb that is in   *)
(* FIN_WAIT_2 to TIME_WAIT.  The segment acknowledges SND.NXT, and the     *)
(* local FIN was transmitted before the tcb is taken as half-closed.       *)
C24_TextAcceptedWhileReceiving ==
    \A seg \in CloseSegments :
        (/\ tcbs # {}
         /\ in_state(tcb, {ESTABLISHED, FIN_WAIT_1, FIN_WAIT_2})
         /\ seg.len > 0 /\ seg.seq = tcb.rcv.next
         /\ segment_acceptable(tcb, seg.seq, seg.len)
         /\ seg.ack = tcb.snd.next
         /\ in_state(tcb, {FIN_WAIT_1, FIN_WAIT_2}) => tcb.gh.fin_tx > 0
         /\ input_handle_other_state(tcb, seg, 300, "benign").fx.fault = "none")
        => /\ input_handle_other_state(tcb, seg, 300, "benign").rcv.next
                 = SeqAdd(tcb.rcv.next, seg.len + IF seg.f_fin THEN 1 ELSE 0)
           /\ \/ input_handle_other_state(tcb, seg, 300, "benign").rcv.data
                    = Append(tcb.rcv.data, PeerPayload(seg.seq, seg.len))
              \/ /\ seg.f_fin
                 /\ in_state(input_handle_other_state(tcb, seg, 300, "benign"),
                             {TIME_WAIT})

(* C25: the provider hands out new data only inside the peer's window: a   *)
(* call that builds a first-time data segment, and so moves SND.NXT,       *)
(* leaves SND.NXT at or below SND.UNA + SND.window as they were when the   *)
(* segment was built.  The probe byte is built by the persist timer, not   *)
(* by the provider.                                                        *)
C25_NoNewDataBeyondWindow ==
    [][(Provider /\ tcbs # {} /\ tcb'.snd.next # tcb.snd.next)
          => SeqLE(tcb'.snd.next,
                   SeqAdd(tcb.snd.unacknowledged, tcb.snd.window))]_vars

(* The acknowledgment number of the segment get_packet would hand out next *)
NextEmittedAck(t) ==
    IF t.packetq # <<>> THEN Head(t.packetq).ack ELSE t.rcv.next

(* C26: right after a step that accepted in-order data, so that RCV.NXT    *)
(* advanced and nothing emitted so far can cover it, either the            *)
(* delayed-ACK timer is armed or the tcb is scheduled and the next segment *)
(* it emits carries ACK = RCV.NXT; after the second of two full-sized      *)
(* segments in a row it is the latter.                                     *)
C26_AcceptedDataGetsAcked ==
    [][(/\ tcbs # {} /\ tcbs' # {}
        /\ in_state(tcb, {ESTABLISHED, FIN_WAIT_1, FIN_WAIT_2})
        /\ tcb'.rcv.next # tcb.rcv.next
        /\ Len(tcb'.rcv.data) > Len(tcb.rcv.data))
          => /\ \/ tcb'.delayed_ack
                \/ tcb'.poll_active /\ NextEmittedAck(tcb') = tcb'.rcv.next
             /\ (SeqDiff(tcb'.rcv.next, tcb.rcv.next) = tcb.rcv.mss
                    /\ tcb.nr_full_seg_received >= 1)
                   => tcb'.poll_active /\ NextEmittedAck(tcb') = tcb'.rcv.next]_vars

(* The state the claim names for a tcb in state s that accepts a FIN       *)
(* whose segment acknowledges the local FIN or not                         *)
StateAfterFin(s, acks_fin) ==
    CASE s \in {SYN_RECEIVED, ESTABLISHED} -> CLOSE_WAIT
      [] s = FIN_WAIT_1 -> IF acks_fin THEN TIME_WAIT ELSE CLOSING
      [] s = FIN_WAIT_2 -> TIME_WAIT
      [] OTHER -> s

(* C27: the handler takes a FIN without payload at RCV.NXT as follows.     *)
(* In SYN_RECEIVED, ESTABLISHED, FIN_WAIT_1 and FIN_WAIT_2 it advances     *)
(* RCV.NXT by exactly 1, moves to the state the claim names, and leaves    *)
(* the tcb scheduled with ACK = RCV.NXT on the next segment it emits.  In  *)
(* any other state it changes neither the state nor RCV.NXT.  The segment  *)
(* acknowledges SND.NXT or, in FIN_WAIT_1 and FIN_WAIT_2, the local FIN.   *)
C27_FinAccepted ==
    \A seg \in CloseSegments :
        (/\ tcbs # {}
         /\ seg.f_fin /\ seg.len = 0 /\ seg.seq = tcb.rcv.next
         /\ seg.ack = tcb.snd.next \/ in_state(tcb, {FIN_WAIT_1, FIN_WAIT_2})
         /\ input_handle_other_state(tcb, seg, 300, "benign").fx.fault = "none")
        => IF in_state(tcb, {SYN_RECEIVED, ESTABLISHED, FIN_WAIT_1, FIN_WAIT_2})
           THEN /\ input_handle_other_state(tcb, seg, 300, "benign").rcv.next
                      = SeqAdd(tcb.rcv.next, 1)
                /\ input_handle_other_state(tcb, seg, 300, "benign").state
                      = StateAfterFin(tcb.state, seg.ack = SeqAdd(tcb.snd.next, 1))
                /\ input_handle_other_state(tcb, seg, 300, "benign").poll_active
                /\ NextEmittedAck(input_handle_other_state(tcb, seg, 300, "benign"))
                      = SeqAdd(tcb.rcv.next, 1)
           ELSE /\ input_handle_other_state(tcb, seg, 300, "benign").rcv.next
                      = tcb.rcv.next
                /\ input_handle_other_state(tcb, seg, 300, "benign").state = tcb.state

(* Old and new segments with every flag combination: after an active open  *)
(* the peer sends segments that begin before or at RCV.NXT, with or        *)
(* without payload, while the user closes and the delayed-ACK timer runs.  *)
FrameSegments ==
    IF tcbs = {} THEN {}
    ELSE IF tcb.state = SYN_SENT
    THEN {seg \in OpenSegments({F_SYNACK}, {RcvWindow}) : seg.ack = SeqAdd(LocalIsn, 1)}
    ELSE {seg \in SyncSegments({-1, 0}, 0 .. MaxSegLen, Flags, {RcvWindow}) :
             seg.ack = tcb.snd.next}

NextFrame ==
    \/ \E g \in Garbage : Connect(LocalIsn, g)
    \/ \E seg \in FrameSegments, R \in RttSamples, ub \in {"benign", "abort"}, g \in Garbage :
          Received(seg, R, ub, LocalIsn, g)
    \/ L2Resolved
    \/ Provider
    \/ DelayedAckTimer
    \/ CloseWrite

SpecFrame == Init /\ [][NextFrame]_vars

(* C28: in a synchronized state the handler leaves every field of the tcb  *)
(* as it was for a segment that fails the sequence check, whatever its     *)
(* flags and payload, except that the tcb is scheduled; and the segment    *)
(* the tcb emits next carries ACK = RCV.NXT.                               *)
C28_UnacceptableOnlyAcked ==
    \A seg \in FrameSegments :
        (/\ tcbs # {}
         /\ in_state(tcb, {ESTABLISHED, FIN_WAIT_1, FIN_WAIT_2, CLOSE_WAIT, CLOSING,
                           LAST_ACK, TIME_WAIT})
         /\ ~ segment_acceptable(tcb, seg.seq, seg.len))
        => /\ [input_handle_other_state(tcb, seg, 300, "benign")
                  EXCEPT !.poll_active = tcb.poll_active, !.fx.polls = 0] = tcb
           /\ input_handle_other_state(tcb, seg, 300, "benign").poll_active
           /\ NextEmittedAck(input_handle_other_state(tcb, seg, 300, "benign"))
                 = tcb.rcv.next

(* C29: every payload byte of an emitted segment, first transmission or    *)
(* retransmission, sits at its own sequence number: byte k of the stream   *)
(* handed to send() at ISS + 1 + k, where the payload of a segment begins  *)
(* at SEQ, or at SEQ + 1 if the segment carries SYN.                       *)
C29_BytesAtOwnSequenceNumber ==
    \A i \in 1 .. Len(wire) : \A j \in 1 .. Len(wire[i].data) :
        SeqAdd(wire[i].seq, (IF wire[i].f_syn THEN 1 ELSE 0) + j - 1)
            = SeqAdd(tcb.snd.initial, 1 + wire[i].data[j])

(* C30: the partial-ACK step of data_segment_acked never runs on an empty  *)
(* SND.data, so no run ends in its write through front() of an empty       *)
(* deque, the ACK that completes the handshake included.                   *)
C30_PartialAckHasFront == fault # "front() of the empty _snd.data"

(* A simultaneous open: after connect() the peer's own SYN arrives, or its *)
(* SYN,ACK, and then its ACKs, while the SYN is retransmitted.  The        *)
(* members of the new tcb that have no initializer hold any of the values  *)
(* of SimulGarbage.                                                        *)
SimulGarbage == {0, 1, 3}

SimulSegments ==
    IF tcbs = {} THEN {}
    ELSE IF tcb.state = SYN_SENT THEN OpenSegments({F_SYN, F_SYNACK}, {RcvWindow})
    ELSE {seg \in SyncSegments({0}, {0}, {F_ACK}, {RcvWindow}) :
             SeqLE(seg.ack, tcb.snd.next)}

NextSimul ==
    \/ \E g \in SimulGarbage : Connect(LocalIsn, g)
    \/ \E seg \in SimulSegments, R \in RttSamples, ub \in {"benign", "abort"}, g \in Garbage :
          Received(seg, R, ub, LocalIsn, g)
    \/ L2Resolved
    \/ Provider
    \/ FewTimeouts /\ ~ tcb.gh.cleaned /\ RetransmitTimer

SpecSimul == Init /\ [][NextSimul]_vars

(* C31: a tcb in ESTABLISHED has had init_from_options run on the peer's   *)
(* SYN, on every path into ESTABLISHED.                                    *)
C31_EstablishedHasOptions ==
    (tcbs # {} /\ in_state(tcb, {ESTABLISHED})) => tcb.gh.options_init

(* The bytes of a queue of packets, and the data_len of the segments that  *)
(* are stored for retransmission                                           *)
RECURSIVE SumLen(_)
SumLen(q) == IF q = <<>> THEN 0 ELSE Len(Head(q)) + SumLen(Tail(q))
RECURSIVE SumDataLen(_)
SumDataLen(segs) ==
    IF segs = <<>> THEN 0 ELSE Head(segs).data_len + SumDataLen(Tail(segs))

LiveConnection == tcbs # {} /\ ~ tcb.gh.cleaned

C33_ScheduledAtMostOnce ==
    l2_pending + poll_tcbs = IF tcb.poll_active THEN 1 ELSE 0

(* The tcb is back on the ready ring after the provider has pulled a       *)
(* segment from it, with the retransmit timer armed as well.               *)
C33_Witness ==
    /\ tcb.poll_active /\ poll_tcbs = 1 /\ l2_pending = 0
    /\ wire # <<>> /\ tcb.retransmit

(* A peer whose SYN,ACK advertises a window of 0 and whose later ACKs open *)
(* it, with a user that sends: SND.ssthresh starts from the SYN's window.  *)
ZeroWindowSegments ==
    IF tcbs = {} THEN {}
    ELSE IF tcb.state = SYN_SENT
    THEN {seg \in OpenSegments({F_SYNACK}, {0}) : seg.ack = SeqAdd(LocalIsn, 1)}
    ELSE {seg \in SyncSegments({0}, {0}, {F_ACK}, {RcvWindow}) :
             /\ SeqLE(seg.ack, tcb.snd.next)
             /\ IsDupAck(seg) => tcb.snd.dupacks < MaxDupAcks}

NextZeroWindow ==
    \/ \E g \in Garbage : Connect(LocalIsn, g)
    \/ \E seg \in ZeroWindowSegments, R \in RttSamples, ub \in {"benign", "abort"}, g \in Garbage :
          Received(seg, R, ub, LocalIsn, g)
    \/ L2Resolved
    \/ Provider
    \/ \E len \in 1 .. UserQueueSpace : Send(len)
    \/ SendResume

SpecZeroWindow == Init /\ [][NextZeroWindow]_vars

(* C34: once init_from_options has run, SND.cwnd is greater than 0 in      *)
(* every reachable state, and update_cwnd never divides by a cwnd of 0.    *)
C34_CwndPositive ==
    /\ (tcbs # {} /\ tcb.gh.options_init) => tcb.snd.cwnd > 0
    /\ fault # "division by zero in update_cwnd"

(* C35: whenever the third duplicate ACK in a row is processed and         *)
(* ssthresh is computed from it (SEG.ACK - 1 is beyond SND.recover),       *)
(* SND.limited_transfer is at most flight_size(), so that the difference   *)
(* flight_size() - limited_transfer does not wrap.                         *)
C35_LimitedTransferWithinFlight ==
    [][(/\ tcbs # {} /\ tcb.snd.dupacks = 2 /\ tcb'.snd.dupacks = 3
        /\ SeqGT(SeqAdd(tcb.snd.unacknowledged, -1), tcb.snd.recover))
          => tcb.snd.limited_transfer <= flight_size(tcb)]_vars

(* C36: _connect_done is resolved at most once over the life of the tcb,   *)
(* with a value or with an exception, the steps after cleanup() included.  *)
C36_ConnectResolvedOnce == tcb.gh.connect_sets <= 1

(* The 4-tuple is used again after the tcb was erased from _tcbs: a newer  *)
(* tcb is made for the same connid and registered, by tcp::connect drawing *)
(* the same source port or by a SYN of the same peer on a listener.  Only  *)
(* the newer tcb's entry in the table is followed, not its own steps.      *)
Newer == "newer"

ReuseTuple ==
    /\ fault = "none"
    /\ tcbs = {}
    /\ tcb.gh.cleaned
    /\ tcbs' = {Newer}
    /\ UNCHANGED <<tcb, listening, listen_q, conn, l2_pending, poll_tcbs, tcb_polled,
                   packetq, queue_space, wire, fault>>

(* Segments reach the tcb only while its own entry is in the table *)
ReuseSegments == IF tcbs = {Self} THEN TimeoutSegments ELSE {}

NextReuse ==
    \/ \E g \in Garbage : Connect(LocalIsn, g)
    \/ \E seg \in ReuseSegments, R \in RttSamples, ub \in {"benign", "abort"}, g \in Garbage :
          Received(seg, R, ub, LocalIsn, g)
    \/ L2Resolved
    \/ Provider
    \/ RetransmitTimer
    \/ CloseWrite
    \/ ReuseTuple

SpecReuse == Init /\ [][NextReuse]_vars

(* C37: no step of a tcb that was already removed from _tcbs erases the    *)
(* entry a newer tcb holds for the same 4-tuple.                           *)
C37_NewerEntryKept == [][(Newer \in tcbs) => (Newer \in tcbs')]_vars

(* C38: while the tcb is ESTABLISHED or CLOSE_WAIT the persist timer is    *)
(* armed exactly when SND.window is 0.                                     *)
C38_PersistArmedIffZeroWindow ==
    (tcbs # {} /\ in_state(tcb, {ESTABLISHED, CLOSE_WAIT}))
        => (tcb.persist <=> tcb.snd.window = 0)

(* The pull hook of the network interface is called again and again: the   *)
(* demultiplexing paths of SpecStray with a provider that is weakly fair.  *)
SpecStrayFair == Init /\ [][NextStray]_vars /\ WF_vars(Provider)

(* C39: a tcb on the ready ring is eventually taken off it and asked for a *)
(* packet (unless the run ended in a fault), whatever stray packets are    *)
(* queued meanwhile.                                                       *)
C39_ScheduledEventuallyPolled == (poll_tcbs > 0) ~> (poll_tcbs = 0 \/ fault # "none")

(* C40: every assignment of _state follows one of StateEdges or is         *)
(* do_reset's; a tcb that was torn down in CLOSED or TIME_WAIT stays in    *)
(* that state; and no tcb is ever in LISTEN.                               *)
C40_StateChangesFollowEdges ==
    /\ [](~ tcb.gh.off_edge /\ tcb.state # LISTEN)
    /\ [][(tcb.gh.cleaned /\ in_state(tcb, {CLOSED, TIME_WAIT})) => tcb'.state = tcb.state]_vars

(* an active open was closed from both sides: the tcb went through         *)
(* FIN_WAIT_1 to TIME_WAIT, with the local FIN acknowledged and the peer's *)
(* FIN accepted, and was torn down there                                   *)
C40_Witness ==
    /\ tcb.state = TIME_WAIT /\ tcb.gh.cleaned /\ tcbs = {}
    /\ tcb.connect_done = "value" /\ tcb.gh.fin_acked /\ tcb.gh.fin_rcvd
    /\ ~ tcb.gh.rst_acted
=============================================================================
